---- MODULE Spec2Model ----
(***************************************************************************)
(* A model of the orchestration core of brainstormagents:                  *)
(*   - core/facilitator.py      the phase state machine                    *)
(*   - core/session.py, core/protocol.py   the session aggregate           *)
(*   - api/services/stream_service.py      the phase runner and the        *)
(*                                          full-session runner            *)
(*   - api/routes/{session,websocket,phase}.py  the requests that touch    *)
(*                                          the same SessionState          *)
(*   - features/problem_solver.py, features/intent_analyzer.py,            *)
(*     features/expert_matcher.py          the solve pipeline              *)
(*   - features/emotion_engine.py          the emotion update of a turn    *)
(*   - utils/llm_client.py, server.py      the completion provider, the    *)
(*                                          single-file application        *)
(* The runners are asyncio coroutines: code between two suspension points  *)
(* (a yield of the generator, an await) runs atomically, so one action of  *)
(* the model is the code from one suspension point to the next.            *)
(***************************************************************************)
EXTENDS Integers, Sequences, FiniteSets, TLC

\* ------------------------------------------------------------------ bounds
MaxAgents == 2      \* participants in the roster: 0..MaxAgents
MaxRounds == 2      \* largest round override a client sends
MaxChunks == 2      \* chunks one streaming provider call yields: 0..MaxChunks
MaxPolls == 2       \* iterations of the pause poll loop that are observed
MaxPartial == 1     \* chunks a streaming attempt yields before it fails: 0..MaxPartial
MaxErrors == 2      \* stream_full requests observed on a session that is not started
MaxCalls == 2       \* get_phase_config() calls observed
MaxRunRounds == 3   \* run_round() calls observed
MaxResets == 2      \* reset requests observed

\* ------------------------------------------------------- phase state machine
\* BrainstormPhase, in definition order (list(BrainstormPhase))
Phases == <<"opening", "define_topic", "diverge", "deepen", "evaluate", "integrate", "output">>

PhaseIds == {Phases[i] : i \in 1..Len(Phases)}

PhaseIndex(p) == CHOOSE i \in 1..Len(Phases) : Phases[i] = p

\* PHASE_CONFIG: the static "rounds" of each phase and whether it has an "agent_prompt"
PHASE_CONFIG ==
  [p \in PhaseIds |->
     CASE p = "opening"      -> [rounds |-> 0, agent_prompt |-> FALSE]
       [] p = "define_topic" -> [rounds |-> 1, agent_prompt |-> TRUE]
       [] p = "diverge"      -> [rounds |-> 2, agent_prompt |-> TRUE]
       [] p = "deepen"       -> [rounds |-> 2, agent_prompt |-> TRUE]
       [] p = "evaluate"     -> [rounds |-> 1, agent_prompt |-> TRUE]
       [] p = "integrate"    -> [rounds |-> 1, agent_prompt |-> TRUE]
       [] p = "output"       -> [rounds |-> 0, agent_prompt |-> FALSE]]

\* Facilitator.get_phase_config: a copy of the static configuration with
\* rounds overridden when custom_rounds has the phase
get_phase_config(cr, phase) ==
  IF phase \in DOMAIN cr
    THEN [PHASE_CONFIG[phase] EXCEPT !.rounds = cr[phase]]
    ELSE PHASE_CONFIG[phase]

\* advance_phase with the terminal test off by one: OUTPUT wraps to OPENING
advance_phase_wraps(phase) ==
  LET current_idx == PhaseIndex(phase) IN
    [phase |-> Phases[(current_idx % Len(Phases)) + 1], result |-> TRUE]

\* Facilitator.advance_phase: the phase after the call and the value returned
advance_phase(phase) ==
  LET current_idx == PhaseIndex(phase) IN
    IF current_idx < Len(Phases)
      THEN [phase |-> Phases[current_idx + 1], result |-> TRUE]
      ELSE [phase |-> phase, result |-> FALSE]

\* generate_phase_stream, line 51: the number of rounds the runner executes,
\* facilitator.phase_rounds.get(current_phase.value, 1)
PhaseRoundsLookup(pr, phase) ==
  IF phase \in DOMAIN pr THEN pr[phase] ELSE 1

\* ----------------------------------------------------------------- messages
\* metadata keys the orchestration reads; "" and -1 stand for an absent key
EmptyMeta == [type |-> "", phase |-> "", role |-> "", round |-> -1]

Meta(type, phase, role, round) ==
  [type |-> type, phase |-> phase, role |-> role, round |-> round]

\* protocol.Message(sender, content, third): the dataclass fields are
\* (sender, content, timestamp, metadata), so a third positional argument
\* binds to timestamp and metadata keeps its default {}
Message(sender, content, third) ==
  [sender |-> sender, content |-> content,
   timestamp |-> [number |-> FALSE, dict |-> third], metadata |-> EmptyMeta]

\* protocol.Message(sender=, content=, metadata=): timestamp is time.time()
MessageKw(sender, content, metadata) ==
  [sender |-> sender, content |-> content,
   timestamp |-> [number |-> TRUE, dict |-> EmptyMeta], metadata |-> metadata]

\* the participants a client may configure (AgentConfig name and role)
AgentPool == << [name |-> "a1", role |-> "r1"], [name |-> "a2", role |-> "r2"],
                [name |-> "a3", role |-> "r3"], [name |-> "a4", role |-> "r4"] >>

FacilitatorName == "facilitator"
SummaryName == "report"
HumanName == "user"

\* one SSE event (create_sse_message): its name and the payload fields used
Ev(event, agent, phase, content) ==
  [event |-> event, agent |-> agent, phase |-> phase, content |-> content]

\* ----------------------------------------------------------------- provider
\* config.py: DEFAULT_MODEL and FALLBACK_MODELS
DEFAULT_MODEL == "gemini-2.5-flash-lite"
FALLBACK_MODELS == <<"gpt-5-chat", "grok-4.1-fast">>

Models == {DEFAULT_MODEL} \cup {FALLBACK_MODELS[i] : i \in 1..Len(FALLBACK_MODELS)}

\* what client.chat.completions.create does for one model: it returns (a
\* stream that runs to its end), or it raises, for a stream after `partial`
\* chunks were delivered
ModelUp == [raises |-> FALSE, partial |-> 0]

ModelDown(k) == [raises |-> TRUE, partial |-> k]

ModelOutcomes == {ModelUp} \cup {ModelDown(k) : k \in 0..MaxPartial}

AllModelsUp == [m \in Models |-> ModelUp]

\* ------------------------------------------------------------------- state
VARIABLES
  session_status,    \* session_manager.sessions[id]: "unknown", "created" (no session yet), "started"
  agents,            \* session.agents: the roster, in order
  history,           \* session.history
  rounds,            \* session.rounds
  current_phase,     \* facilitator.current_phase
  custom_rounds,     \* facilitator.custom_rounds = facilitator.phase_rounds
  advance_result,    \* value returned by the last advance_phase(): "none", "true", "false"
  is_paused,         \* SessionState.is_paused
  interrupt_signal,  \* SessionState.interrupt_signal
  provider_chunks,   \* chunks a get_completion_stream attempt that succeeds yields
  model_name,        \* agent.model_name / facilitator.model_name: the model requested
  provider_plan,     \* what each model's endpoint does in this run
  phase_table,       \* facilitator.PHASE_CONFIG: the module-level table every Facilitator reads
  peer,              \* the Facilitator of another session: its current_phase and custom_rounds
  returned,          \* the values get_phase_config() returned, in call order
  reset_responses,   \* what the POST /session/reset requests answered, in request order
  server_session,    \* server.py, module global session: "undefined", "none"
  server_is_paused,  \* server.py, module global is_paused: "undefined", "true", "false"
  exclude_indices,   \* argument exclude_indices of a match_by_domains() call
  pc,                \* where the runner is suspended
  caller,            \* who drives generate_phase_stream: "none", "phase", "full"
  phase_rounds,      \* local phase_rounds of generate_phase_stream
  round_num,         \* local round_num
  agent_idx,         \* position of the for-loop over agents
  intro,             \* local intro
  full_prompt,       \* local full_prompt
  full_response,     \* local full_response
  prompts,           \* prompts handed to get_completion_stream, in call order
  events             \* SSE events emitted so far

sessionVars == <<session_status, agents, history, rounds, current_phase, custom_rounds, advance_result,
                 is_paused, interrupt_signal, provider_chunks, model_name, provider_plan,
                 phase_table, peer, returned, reset_responses, server_session,
                 server_is_paused, exclude_indices, pc, caller, phase_rounds,
                 round_num, agent_idx, intro, full_prompt, full_response, prompts, events>>

\* TechnicalProblemSolver.solve / solve_stream: one request and its locals
VARIABLES
  problem,                  \* argument problem: the words of the question
  selected_expert_indices,  \* argument selected_expert_indices
  max_experts,              \* argument max_experts
  iteration_rounds,         \* argument iteration_rounds (solve_stream)
  api,                      \* entry point taken: "none", "solve", "solve_stream"
  spc,                      \* where the pipeline coroutine is suspended
  intent,                   \* local intent (ProblemIntent)
  matched_experts,          \* local matched_experts
  ready,                    \* event loop: tasks scheduled and not yet run, in order
  tasks,                    \* the _solve_single tasks gather runs, by position
  results,                  \* result list gather builds
  completed,                \* task positions in the order their calls completed
  sub_solutions,            \* local sub_solutions
  current_solutions,        \* local current_solutions (solve_stream)
  improved,                 \* local improved of _improve_solutions
  slot,                     \* position of a per-expert loop of a sequential stage
  solve_round_num,          \* local round_num of solve_stream
  ncalls,                   \* get_completion_async calls issued, per stage
  final_solution,           \* local final_solution
  stage_value,              \* the aggregate stage whose call just returned: how it ended, the value handed on
  solve_events              \* events solve_stream has yielded

solverVars == <<problem, selected_expert_indices, max_experts, iteration_rounds, api, spc,
                intent, matched_experts, ready, tasks, results, completed, sub_solutions,
                current_solutions, improved, slot, solve_round_num, ncalls,
                final_solution, stage_value, solve_events>>

vars == <<sessionVars, solverVars>>

Stages == {"analyze", "solve", "reflect", "improve", "validate", "discuss", "critique",
           "respond", "evaluate", "integrate"}

NoIntent == [domains |-> << >>, sub_problems |-> << >>, confidence |-> 0]

NoStageValue == [stage |-> "", outcome |-> [kind |-> "", error |-> ""], value |-> << >>]

\* no solve request has been made
SolverIdle ==
  /\ problem = {}
  /\ selected_expert_indices = << >>
  /\ max_experts = 1
  /\ iteration_rounds = 1
  /\ api = "none"
  /\ spc = "idle"
  /\ intent = NoIntent
  /\ matched_experts = << >>
  /\ ready = << >>
  /\ tasks = << >>
  /\ results = << >>
  /\ completed = << >>
  /\ sub_solutions = << >>
  /\ current_solutions = << >>
  /\ improved = << >>
  /\ slot = 0
  /\ solve_round_num = 0
  /\ ncalls = [s \in Stages |-> 0]
  /\ final_solution = << >>
  /\ stage_value = NoStageValue
  /\ solve_events = << >>

facilitatorVars == <<current_phase, custom_rounds, advance_result>>
flagVars == <<is_paused, interrupt_signal>>
providerVars == <<provider_chunks, model_name, provider_plan>>
configVars == <<phase_table, peer, returned>>
appVars == <<reset_responses, server_session, server_is_paused>>
matcherVars == <<exclude_indices>>
registryVars == <<session_status, agents>>
localVars == <<phase_rounds, round_num, agent_idx, intro, full_prompt, full_response>>

NoPrompt == [agent |-> "", instruction |-> "none", context |-> 0]

\* a second session that was started without overrides
NoPeer == [current_phase |-> "opening", custom_rounds |-> << >>]

\* the table as the module defines it, one other session, no call observed
ConfigIdle ==
  /\ phase_table = PHASE_CONFIG
  /\ peer = NoPeer
  /\ returned = << >>

\* server.py as imported: no statement of the module binds session or
\* is_paused; no reset request was made
AppIdle ==
  /\ reset_responses = << >>
  /\ server_session = "undefined"
  /\ server_is_paused = "undefined"

\* phases for which a client sends an override, and the override maps sent
OverridePhases == {"opening", "diverge"}

OverrideMaps ==
  UNION {[S -> 0..MaxRounds] : S \in {T \in SUBSET OverridePhases : Cardinality(T) <= 1}}

\* SessionState.initialize_session (start_session): a fresh session, the
\* facilitator at OPENING, both flags down
Init ==
  /\ \E n \in 0..MaxAgents : agents = SubSeq(AgentPool, 1, n)
  /\ session_status = "started"
  /\ history = << >>
  /\ rounds = 0
  /\ current_phase = "opening"
  /\ custom_rounds \in OverrideMaps
  /\ advance_result = "none"
  /\ is_paused = FALSE
  /\ interrupt_signal = FALSE
  /\ provider_chunks \in 0..MaxChunks
  /\ model_name = DEFAULT_MODEL
  /\ provider_plan = AllModelsUp
  /\ ConfigIdle
  /\ AppIdle
  /\ exclude_indices = {}
  /\ pc = "idle"
  /\ caller = "none"
  /\ phase_rounds = 0
  /\ round_num = 0
  /\ agent_idx = 0
  /\ intro = << >>
  /\ full_prompt = NoPrompt
  /\ full_response = << >>
  /\ prompts = << >>
  /\ events = << >>
  /\ SolverIdle

\* ------------------------------------------------------------ event helpers
EventNames(evs) == [i \in 1..Len(evs) |-> evs[i].event]

CountEvents(evs, name) == Cardinality({i \in 1..Len(evs) : evs[i].event = name})

Emit(e) == events' = Append(events, e)

\* tokens standing for provider output: a facilitator opening, one streamed
\* chunk, a mention reply, the final report; a human's text
IntroText == <<"intro">>
ChunkText == "w"
ReplyText == <<"reply">>
SummaryText == <<"summary">>
\* the texts a human sends, each at most once
HumanTexts == {<<"hello">>, <<"again">>}
\* a websocket frame's "content" that is not a string: JSON null (None)
NullContent == <<"null">>
\* what data.get("content", "") of a websocket frame may be
FrameContents == HumanTexts \cup {NullContent}

\* ------------------------------------------------------ completion provider
\* the sentinel get_completion returns, and the one chunk
\* get_completion_stream yields, when every candidate model failed
SystemErrorText == <<"[System Error]">>
SystemErrorChunk == "[System Error]"

\* n chunks of model text
Chunks(n) == [i \in 1..n |-> ChunkText]

\* the candidate list built without the filter on the fallbacks
candidate_models_unfiltered(model) == <<model>> \o FALLBACK_MODELS

\* llm_client.py, lines 46 and 90:
\* candidate_models = [model] + [m for m in FALLBACK_MODELS if m != model]
candidate_models(model) ==
  <<model>> \o SelectSeq(FALLBACK_MODELS, LAMBDA m : m # model)

\* lines 48-75: the loop of get_completion from candidate i on; tried lists
\* the models create() was called for, text is the value returned
RECURSIVE CompletionLoop(_, _, _, _)
CompletionLoop(candidates, i, plan, text) ==
  IF i > Len(candidates)
    THEN [tried |-> candidates, text |-> SystemErrorText]
    ELSE IF plan[candidates[i]].raises
      THEN CompletionLoop(candidates, i + 1, plan, text)
      ELSE [tried |-> SubSeq(candidates, 1, i), text |-> text]

\* LLMClient.get_completion(model=model), text being what a model answers
get_completion(model, plan, text) ==
  CompletionLoop(candidate_models(model), 1, plan, text)

\* lines 92-118: the loop of get_completion_stream from candidate i on; out
\* is every chunk yielded so far and by the attempt that yielded it: the
\* chunks a failing attempt delivered before it raised stay yielded, then the
\* next candidate is tried
RECURSIVE StreamLoop(_, _, _, _, _, _)
StreamLoop(candidates, i, plan, n, out, by) ==
  IF i > Len(candidates)
    THEN [tried |-> candidates, out |-> Append(out, SystemErrorChunk),
          by |-> Append(by, "none")]
    ELSE IF plan[candidates[i]].raises
      THEN StreamLoop(candidates, i + 1, plan, n,
                      out \o Chunks(plan[candidates[i]].partial),
                      by \o [k \in 1..plan[candidates[i]].partial |-> candidates[i]])
      ELSE [tried |-> SubSeq(candidates, 1, i), out |-> out \o Chunks(n),
            by |-> by \o [k \in 1..n |-> candidates[i]]]

\* LLMClient.get_completion_stream(model=model), n being the chunks of a
\* stream that runs to its end
get_completion_stream(model, plan, n) ==
  StreamLoop(candidate_models(model), 1, plan, n, << >>, << >>)

\* ------------------------------------------------------ phase runner pieces
\* the flag read but never cleared
ConsumeInterrupt_kept(sig) == sig

\* generate_phase_stream, lines 108-110: is_interrupt = state.interrupt_signal;
\* if is_interrupt: state.interrupt_signal = False. The flag after the check.
ConsumeInterrupt(sig) == IF sig THEN FALSE ELSE sig

\* history[-3:]
Last3(hist) == SubSeq(hist, IF Len(hist) > 3 THEN Len(hist) - 2 ELSE 1, Len(hist))

\* lines 113-117: a human message among the last 3 entries selects the
\* instruction, worded "urgent" when the interrupt flag was set
HumanInstruction(hist, is_interrupt) ==
  IF \E i \in 1..Len(Last3(hist)) : Last3(hist)[i].metadata.type = "human"
    THEN (IF is_interrupt THEN "urgent" ELSE "special")
    ELSE "none"

\* the pause flag never consulted
PausePollCondition_ignored(paused) == FALSE

\* line 127: the condition of the pause poll loop
PausePollCondition(paused) == paused

\* lines 127-135: the poll loop head, reached from the prompt construction and
\* again after every sleep(1): a paused event while the flag is up, else the
\* typing indicator of the pending participant
PauseLoop ==
  IF PausePollCondition(is_paused)
    THEN /\ Emit(Ev("paused", "", "", << >>))
         /\ pc' = "pause"
    ELSE /\ Emit(Ev("agent_typing", agents[agent_idx].name, "", << >>))
         /\ pc' = "call"

\* lines 45-60: generate_phase_stream up to its first yield
GenStart(who) ==
  /\ phase_rounds' = PhaseRoundsLookup(custom_rounds, current_phase)
  /\ Emit(Ev("phase_start", "", current_phase, << >>))
  /\ pc' = "intro"
  /\ caller' = who
  /\ UNCHANGED <<registryVars, history, rounds, facilitatorVars, flagVars, providerVars, configVars, appVars, matcherVars,
                 round_num, agent_idx, intro, full_prompt, full_response, prompts>>

\* GET /session/stream_phase: one generate_phase_stream over the SessionState
stream_phase ==
  /\ pc = "idle"
  /\ caller = "none"
  /\ CountEvents(events, "phase_start") = 0
  /\ GenStart("phase")
  /\ UNCHANGED solverVars

\* lines 63-74: the facilitator opening is obtained and emitted
FacilitatorIntro ==
  /\ pc = "intro"
  /\ LET r == get_completion(model_name, provider_plan, IntroText) IN
       /\ intro' = r.text
       /\ Emit(Ev("message", FacilitatorName, current_phase, r.text))
  /\ pc' = "intro_add"
  /\ UNCHANGED <<registryVars, history, rounds, facilitatorVars, flagVars, providerVars, configVars, appVars, matcherVars, caller,
                 phase_rounds, round_num, agent_idx, full_prompt, full_response, prompts>>
  /\ UNCHANGED solverVars

\* lines 76-88: the opening is appended to history
FacilitatorAdd ==
  /\ pc = "intro_add"
  /\ history' = Append(history,
        Message(FacilitatorName, intro, Meta("facilitator_intro", current_phase, "", -1)))
  /\ round_num' = 0
  /\ pc' = "round_head"
  /\ UNCHANGED <<registryVars, rounds, facilitatorVars, flagVars, providerVars, configVars, appVars, matcherVars, caller,
                 phase_rounds, agent_idx, intro, full_prompt, full_response, prompts, events>>
  /\ UNCHANGED solverVars

\* the round counter moved at the head of every round instead of after the
\* last one
RoundHead_counts_each_round ==
  /\ pc = "round_head"
  /\ IF phase_rounds > 0 /\ round_num < phase_rounds
       THEN /\ events' = IF phase_rounds > 1
                           THEN Append(events, Ev("round_start", "", "", << >>))
                           ELSE events
            /\ IF Len(agents) = 0
                 THEN /\ round_num' = round_num + 1
                      /\ pc' = "round_head"
                      /\ agent_idx' = agent_idx
                 ELSE /\ round_num' = round_num
                      /\ pc' = "turn"
                      /\ agent_idx' = 1
            /\ rounds' = rounds + 1
       ELSE /\ rounds' = rounds
            /\ Emit(Ev("phase_complete", "", current_phase, << >>))
            /\ pc' = "phase_done"
            /\ UNCHANGED <<round_num, agent_idx>>
  /\ UNCHANGED <<registryVars, history, facilitatorVars, flagVars, providerVars, configVars, appVars, matcherVars, caller,
                 phase_rounds, intro, full_prompt, full_response, prompts>>
  /\ UNCHANGED solverVars

\* lines 91-97 and 197-203: the head of the round loop; after the last round
\* the round counter moves and phase_complete is emitted
RoundHead ==
  /\ pc = "round_head"
  /\ IF phase_rounds > 0 /\ round_num < phase_rounds
       THEN /\ events' = IF phase_rounds > 1
                           THEN Append(events, Ev("round_start", "", "", << >>))
                           ELSE events
            /\ IF Len(agents) = 0
                 THEN /\ round_num' = round_num + 1
                      /\ pc' = "round_head"
                      /\ agent_idx' = agent_idx
                 ELSE /\ round_num' = round_num
                      /\ pc' = "turn"
                      /\ agent_idx' = 1
            /\ rounds' = rounds
       ELSE /\ rounds' = IF phase_rounds > 0 THEN rounds + 1 ELSE rounds
            /\ Emit(Ev("phase_complete", "", current_phase, << >>))
            /\ pc' = "phase_done"
            /\ UNCHANGED <<round_num, agent_idx>>
  /\ UNCHANGED <<registryVars, history, facilitatorVars, flagVars, providerVars, configVars, appVars, matcherVars, caller,
                 phase_rounds, intro, full_prompt, full_response, prompts>>
  /\ UNCHANGED solverVars

\* emotion_engine.py, lines 86-118: update_emotions(agents, history) returns at
\* once on an empty history; else analyze_message_emotion evaluates
\* `trigger in msg.content` for each of history[-5:], which raises TypeError
\* for a content that is None or a number
update_emotions(hist) ==
  LET recent_msgs == SubSeq(hist, IF Len(hist) > 5 THEN Len(hist) - 4 ELSE 1, Len(hist))
  IN [raised |-> \E i \in 1..Len(recent_msgs) : recent_msgs[i].content = NullContent]

\* lines 99-135: a participant's turn up to its first yield: the emotion
\* update (line 101, no handler around it: an exception ends the generator),
\* then the context and the prompt are built, the interrupt flag is consumed,
\* the pause loop entered
TurnBegin ==
  /\ pc = "turn"
  /\ IF update_emotions(history).raised
       THEN /\ pc' = "raised"
            /\ UNCHANGED <<interrupt_signal, full_prompt, events>>
       ELSE /\ interrupt_signal' = ConsumeInterrupt(interrupt_signal)
            /\ full_prompt' = [agent |-> agents[agent_idx].name,
                               instruction |-> HumanInstruction(history, interrupt_signal),
                               context |-> Len(history)]
            /\ PauseLoop
  /\ UNCHANGED <<registryVars, history, rounds, facilitatorVars, is_paused, providerVars, configVars, appVars, matcherVars, caller,
                 phase_rounds, round_num, agent_idx, intro, full_response, prompts>>
  /\ UNCHANGED solverVars

\* a resume that starts the roster over instead of continuing with the
\* pending participant
PausePoll_restarts ==
  /\ pc = "pause"
  /\ is_paused => CountEvents(events, "paused") < MaxPolls
  /\ IF is_paused
       THEN /\ Emit(Ev("paused", "", "", << >>))
            /\ pc' = "pause"
            /\ agent_idx' = agent_idx
       ELSE /\ Emit(Ev("agent_typing", agents[1].name, "", << >>))
            /\ pc' = "call"
            /\ agent_idx' = 1
  /\ UNCHANGED <<registryVars, history, rounds, facilitatorVars, flagVars, providerVars, configVars, appVars, matcherVars, caller,
                 phase_rounds, round_num, intro, full_prompt, full_response, prompts>>
  /\ UNCHANGED solverVars

\* a poll loop that is never left once it was entered
PausePoll_never_left ==
  /\ pc = "pause"
  /\ is_paused
  /\ CountEvents(events, "paused") < MaxPolls
  /\ Emit(Ev("paused", "", "", << >>))
  /\ UNCHANGED <<registryVars, history, rounds, facilitatorVars, flagVars, providerVars, configVars, appVars, matcherVars, caller,
                 localVars, prompts, pc>>
  /\ UNCHANGED solverVars

\* lines 127-135: after sleep(1) the loop condition is read again
PausePoll ==
  /\ pc = "pause"
  /\ is_paused => CountEvents(events, "paused") < MaxPolls
  /\ PauseLoop
  /\ UNCHANGED <<registryVars, history, rounds, facilitatorVars, flagVars, providerVars, configVars, appVars, matcherVars, caller,
                 localVars, prompts>>
  /\ UNCHANGED solverVars

\* message_complete carrying the last chunk instead of the accumulated text
StreamStep_last_chunk_only(response) ==
  LET stream == get_completion_stream(model_name, provider_plan, provider_chunks).out
      chunk == stream[Len(response) + 1]
  IN
  IF Len(response) < Len(stream)
    THEN /\ full_response' = Append(response, chunk)
         /\ Emit(Ev("message_chunk", agents[agent_idx].name, current_phase, <<chunk>>))
         /\ pc' = "stream"
    ELSE /\ full_response' = response
         /\ Emit(Ev("message_complete", agents[agent_idx].name, current_phase,
                    IF response = << >> THEN << >> ELSE <<response[Len(response)]>>))
         /\ pc' = "append"

\* lines 141-169: the next item of the provider's stream: a chunk is
\* accumulated and emitted, or the stream ends and message_complete is emitted
StreamStep(response) ==
  LET stream == get_completion_stream(model_name, provider_plan, provider_chunks).out
      chunk == stream[Len(response) + 1]
  IN
  IF Len(response) < Len(stream)
    THEN /\ full_response' = Append(response, chunk)
         /\ Emit(Ev("message_chunk", agents[agent_idx].name, current_phase, <<chunk>>))
         /\ pc' = "stream"
    ELSE /\ full_response' = response
         /\ Emit(Ev("message_complete", agents[agent_idx].name, current_phase, response))
         /\ pc' = "append"

\* lines 140-145: get_completion_stream is called with the prompt built above
StreamCall ==
  /\ pc = "call"
  /\ prompts' = Append(prompts, full_prompt)
  /\ StreamStep(<< >>)
  /\ UNCHANGED <<registryVars, history, rounds, facilitatorVars, flagVars, providerVars, configVars, appVars, matcherVars, caller,
                 phase_rounds, round_num, agent_idx, intro, full_prompt>>
  /\ UNCHANGED solverVars

StreamNext ==
  /\ pc = "stream"
  /\ StreamStep(full_response)
  /\ UNCHANGED <<registryVars, history, rounds, facilitatorVars, flagVars, providerVars, configVars, appVars, matcherVars, caller,
                 phase_rounds, round_num, agent_idx, intro, full_prompt, prompts>>
  /\ UNCHANGED solverVars

\* a turn whose message never reaches history
AppendMessage_not_recorded ==
  /\ pc = "append"
  /\ Emit(Ev("graph_update", "", "", << >>))
  /\ IF agent_idx < Len(agents)
       THEN /\ agent_idx' = agent_idx + 1
            /\ round_num' = round_num
            /\ pc' = "turn"
       ELSE /\ agent_idx' = agent_idx
            /\ round_num' = round_num + 1
            /\ pc' = "round_head"
  /\ UNCHANGED <<registryVars, history, rounds, facilitatorVars, flagVars, providerVars, configVars, appVars, matcherVars, caller,
                 phase_rounds, intro, full_prompt, full_response, prompts>>
  /\ UNCHANGED solverVars

\* lines 171-195: the accumulated message enters history, the graph snapshot
\* is emitted, and the loops move on to the next participant or round
AppendMessage ==
  /\ pc = "append"
  /\ history' = Append(history,
        Message(agents[agent_idx].name, full_response,
                Meta("", current_phase, agents[agent_idx].role, rounds)))
  /\ Emit(Ev("graph_update", "", "", << >>))
  /\ IF agent_idx < Len(agents)
       THEN /\ agent_idx' = agent_idx + 1
            /\ round_num' = round_num
            /\ pc' = "turn"
       ELSE /\ agent_idx' = agent_idx
            /\ round_num' = round_num + 1
            /\ pc' = "round_head"
  /\ UNCHANGED <<registryVars, rounds, facilitatorVars, flagVars, providerVars, configVars, appVars, matcherVars, caller,
                 phase_rounds, intro, full_prompt, full_response, prompts>>
  /\ UNCHANGED solverVars

\* the generator is exhausted and the stream_phase response ends
StreamPhaseEnd ==
  /\ pc = "phase_done"
  /\ caller = "phase"
  /\ pc' = "idle"
  /\ caller' = "none"
  /\ UNCHANGED <<registryVars, history, rounds, facilitatorVars, flagVars, providerVars, configVars, appVars, matcherVars,
                 localVars, prompts, events>>
  /\ UNCHANGED solverVars

\* ------------------------------------------------- requests on the session
Contents(hist) == {hist[i].content : i \in 1..Len(hist)}

\* get_session_or_create: the SessionState of the id, registered when the id
\* is unknown
get_session_or_create(status) == IF status = "unknown" THEN "created" ELSE status

\* POST /session/pause
pause_session ==
  /\ CountEvents(events, "paused") < MaxPolls
  /\ session_status' = get_session_or_create(session_status)
  /\ is_paused' = TRUE
  /\ UNCHANGED <<agents, history, rounds, facilitatorVars, interrupt_signal, providerVars, configVars, appVars, matcherVars,
                 pc, caller, localVars, prompts, events>>
  /\ UNCHANGED solverVars

\* POST /session/resume
resume_session ==
  /\ session_status' = get_session_or_create(session_status)
  /\ is_paused' = FALSE
  /\ UNCHANGED <<agents, history, rounds, facilitatorVars, interrupt_signal, providerVars, configVars, appVars, matcherVars,
                 pc, caller, localVars, prompts, events>>
  /\ UNCHANGED solverVars

\* websocket_endpoint, a {"type": "message"} frame: the human message is
\* appended and the interrupt flag raised
websocket_message ==
  /\ \E text \in HumanTexts \ Contents(history) :
       history' = Append(history, MessageKw(HumanName, text, Meta("human", "", "", -1)))
  /\ interrupt_signal' = TRUE
  /\ UNCHANGED <<registryVars, rounds, facilitatorVars, is_paused, providerVars, configVars, appVars, matcherVars,
                 pc, caller, localVars, prompts, events>>
  /\ UNCHANGED solverVars

\* websocket_endpoint, lines 93-107: receive_json() hands over whatever JSON
\* value the client put under "content"; it is appended unvalidated
websocket_frame ==
  /\ \E content \in FrameContents \ Contents(history) :
       history' = Append(history, MessageKw(HumanName, content, Meta("human", "", "", -1)))
  /\ interrupt_signal' = TRUE
  /\ UNCHANGED <<registryVars, rounds, facilitatorVars, is_paused, providerVars, configVars, appVars, matcherVars,
                 pc, caller, localVars, prompts, events>>
  /\ UNCHANGED solverVars

\* the replies of handle_mention: one per mentioned agent, in roster order
MentionReplies(mentioned) ==
  [i \in 1..Len(mentioned) |->
     MessageKw(mentioned[i].name, ReplyText, Meta("agent", "", "", -1))]

\* the roster entries whose position is in S, in roster order
RosterFilter(roster, S) ==
  LET idx == {i \in 1..Len(roster) : i \in S}
      RECURSIVE Pick(_)
      Pick(T) == IF T = {} THEN << >>
                 ELSE LET m == CHOOSE x \in T : \A y \in T : x <= y
                      IN <<roster[m]>> \o Pick(T \ {m})
  IN Pick(idx)

\* state.session.agents[:1]
FirstAgents(roster) == IF Len(roster) = 0 THEN << >> ELSE SubSeq(roster, 1, 1)

\* a mention that makes the runner start its pending turn over at the head
\* of the roster
handle_mention_preempts ==
  /\ \E text \in HumanTexts \ Contents(history), S \in SUBSET (1..Len(agents)) :
       LET named == RosterFilter(agents, S)
           mentioned_agents == IF named = << >> THEN FirstAgents(agents) ELSE named
       IN history' = Append(history, MessageKw(HumanName, text, Meta("human", "", "", -1)))
                       \o MentionReplies(mentioned_agents)
  /\ interrupt_signal' = TRUE
  /\ agent_idx' = IF pc = "turn" THEN 1 ELSE agent_idx
  /\ UNCHANGED <<registryVars, rounds, facilitatorVars, is_paused, providerVars, configVars, appVars, matcherVars,
                 pc, caller, phase_rounds, round_num, intro, full_prompt, full_response,
                 prompts, events>>
  /\ UNCHANGED solverVars

\* POST /session/mention: the human message, the flag, then the replies of
\* the mentioned agents (of the first agent when nobody is mentioned)
handle_mention ==
  /\ \E text \in HumanTexts \ Contents(history), S \in SUBSET (1..Len(agents)) :
       LET named == RosterFilter(agents, S)
           mentioned_agents == IF named = << >> THEN FirstAgents(agents) ELSE named
       IN history' = Append(history, MessageKw(HumanName, text, Meta("human", "", "", -1)))
                       \o MentionReplies(mentioned_agents)
  /\ interrupt_signal' = TRUE
  /\ UNCHANGED <<registryVars, rounds, facilitatorVars, is_paused, providerVars, configVars, appVars, matcherVars,
                 pc, caller, localVars, prompts, events>>
  /\ UNCHANGED solverVars

\* server.py, line 1087: the replies of its handle_mention, the role dict
\* passed as third positional argument
ServerMentionReplies(mentioned) ==
  [i \in 1..Len(mentioned) |->
     Message(mentioned[i].name, ReplyText, Meta("", "", mentioned[i].role, -1))]

\* server.py, POST /session/mention: the human message built with
\* Message(sender, content, {"type": "human"}), the flag, then one reply per
\* mentioned agent (none when nobody is mentioned)
server_handle_mention ==
  /\ \E text \in HumanTexts \ Contents(history), S \in SUBSET (1..Len(agents)) :
       history' = Append(history, Message(HumanName, text, Meta("human", "", "", -1)))
                    \o ServerMentionReplies(RosterFilter(agents, S))
  /\ interrupt_signal' = TRUE
  /\ UNCHANGED <<registryVars, rounds, facilitatorVars, is_paused, providerVars, configVars, appVars, matcherVars,
                 pc, caller, localVars, prompts, events>>
  /\ UNCHANGED solverVars

\* the steps of generate_phase_stream when no pause request arrives
RunnerStep ==
  \/ FacilitatorIntro
  \/ FacilitatorAdd
  \/ RoundHead
  \/ TurnBegin
  \/ StreamCall
  \/ StreamNext
  \/ AppendMessage

\* one stream_phase request, with the websocket and mention requests of its
\* clients arriving at any suspension point
Next ==
  \/ stream_phase
  \/ RunnerStep
  \/ StreamPhaseEnd
  \/ websocket_message
  \/ handle_mention

Spec == Init /\ [][Next]_vars

\* one stream_phase request, with the mention requests of the server.py
\* application arriving at any suspension point
NextServer ==
  \/ stream_phase
  \/ RunnerStep
  \/ StreamPhaseEnd
  \/ server_handle_mention

SpecServer == Init /\ [][NextServer]_vars

\* one stream_phase request, with websocket frames of any content arriving at
\* any suspension point
NextEmotion ==
  \/ stream_phase
  \/ RunnerStep
  \/ StreamPhaseEnd
  \/ websocket_frame

SpecEmotion == Init /\ [][NextEmotion]_vars

\* one stream_phase request, with pause and resume requests arriving at any
\* suspension point
NextPause ==
  \/ stream_phase
  \/ RunnerStep
  \/ PausePoll
  \/ StreamPhaseEnd
  \/ pause_session
  \/ resume_session

SpecPause == Init /\ [][NextPause]_vars

\* the models a roster or the facilitator is configured with (the default, or
\* one that is also a fallback), and the endpoint behaviours
RequestedModels == Models

ProviderPlans == [Models -> ModelOutcomes]

\* a fresh session whose provider endpoints may fail
InitProvider ==
  /\ \E n \in 0..MaxAgents : agents = SubSeq(AgentPool, 1, n)
  /\ session_status = "started"
  /\ history = << >>
  /\ rounds = 0
  /\ current_phase = "opening"
  /\ custom_rounds \in OverrideMaps
  /\ advance_result = "none"
  /\ is_paused = FALSE
  /\ interrupt_signal = FALSE
  /\ provider_chunks \in 0..MaxChunks
  /\ model_name \in RequestedModels
  /\ provider_plan \in ProviderPlans
  /\ ConfigIdle
  /\ AppIdle
  /\ exclude_indices = {}
  /\ pc = "idle"
  /\ caller = "none"
  /\ phase_rounds = 0
  /\ round_num = 0
  /\ agent_idx = 0
  /\ intro = << >>
  /\ full_prompt = NoPrompt
  /\ full_response = << >>
  /\ prompts = << >>
  /\ events = << >>
  /\ SolverIdle

\* one stream_phase request and nothing else
NextProvider ==
  \/ stream_phase
  \/ RunnerStep
  \/ StreamPhaseEnd

SpecProvider == InitProvider /\ [][NextProvider]_vars

\* ------------------------------------------------------ full-session runner
\* the lookup result taken as usable whatever it is
Initialized_unchecked(status) == TRUE

\* run_full_session_stream, line 213, negated: a SessionState was found and
\* it has a session and a facilitator
Initialized(status) == status = "started"

\* run_full_session_stream, lines 208-220: the session is looked up and
\* session_start is emitted
stream_full ==
  /\ pc = "idle"
  /\ caller = "none"
  /\ Initialized(session_status)
  /\ CountEvents(events, "session_start") = 0
  /\ Emit(Ev("session_start", "", "", << >>))
  /\ pc' = "full_loop"
  /\ caller' = "full"
  /\ UNCHANGED <<registryVars, history, rounds, facilitatorVars, flagVars, providerVars, configVars, appVars, matcherVars,
                 localVars, prompts>>
  /\ UNCHANGED solverVars

\* lines 208-215 (server.py 557-563): the session is unknown or not started;
\* one error event and the generator returns. The lookup of server.py
\* registers a SessionState for an unknown id, that of stream_service.py
\* does not
stream_full_uninitialized ==
  /\ pc = "idle"
  /\ caller = "none"
  /\ ~Initialized(session_status)
  /\ CountEvents(events, "error") < MaxErrors
  /\ \E app \in {"api", "server"} :
       session_status' = IF app = "server" THEN "created" ELSE session_status
  /\ Emit(Ev("error", "", "", << >>))
  /\ UNCHANGED <<agents, history, rounds, facilitatorVars, flagVars, providerVars, configVars, appVars, matcherVars, pc, caller,
                 localVars, prompts>>
  /\ UNCHANGED solverVars

\* POST /session/start: the SessionState is looked up or registered and
\* initialize_session builds the session and the facilitator
start_session ==
  /\ pc = "idle"
  /\ ~Initialized(session_status)
  /\ session_status' = "started"
  /\ \E n \in 0..MaxAgents : agents' = SubSeq(AgentPool, 1, n)
  /\ history' = << >>
  /\ rounds' = 0
  /\ current_phase' = "opening"
  /\ custom_rounds' \in OverrideMaps
  /\ UNCHANGED <<advance_result, flagVars, providerVars, configVars, appVars, matcherVars, pc, caller, localVars, prompts, events>>
  /\ UNCHANGED solverVars

FullPhaseStart ==
  /\ pc = "full_loop"
  /\ GenStart("full")
  /\ UNCHANGED solverVars

\* lines 224-227: the phase generator is exhausted
FullPhaseEnd ==
  /\ pc = "phase_done"
  /\ caller = "full"
  /\ pc' = "full_advance"
  /\ UNCHANGED <<registryVars, history, rounds, facilitatorVars, flagVars, providerVars, configVars, appVars, matcherVars, caller,
                 localVars, prompts, events>>
  /\ UNCHANGED solverVars

\* the loop announcing a transition whatever advance_phase() returned
FullAdvance_always_announces ==
  /\ pc = "full_advance"
  /\ LET r == advance_phase(current_phase) IN
       /\ current_phase' = r.phase
       /\ advance_result' = IF r.result THEN "true" ELSE "false"
       /\ IF r.result
            THEN /\ Emit(Ev("phase_transition", "", r.phase, << >>))
                 /\ pc' = "full_loop"
            ELSE /\ events' = events \o <<Ev("phase_transition", "", r.phase, << >>),
                                          Ev("generating_summary", "", "", << >>)>>
                 /\ pc' = "full_summary"
  /\ UNCHANGED <<registryVars, history, rounds, custom_rounds, flagVars, providerVars, configVars, appVars, matcherVars, caller,
                 localVars, prompts>>
  /\ UNCHANGED solverVars

\* lines 229-240: advance_phase(); phase_transition when it advanced, else the
\* loop is left and generating_summary is emitted
FullAdvance ==
  /\ pc = "full_advance"
  /\ LET r == advance_phase(current_phase) IN
       /\ current_phase' = r.phase
       /\ advance_result' = IF r.result THEN "true" ELSE "false"
       /\ IF r.result
            THEN /\ Emit(Ev("phase_transition", "", r.phase, << >>))
                 /\ pc' = "full_loop"
            ELSE /\ Emit(Ev("generating_summary", "", "", << >>))
                 /\ pc' = "full_summary"
  /\ UNCHANGED <<registryVars, history, rounds, custom_rounds, flagVars, providerVars, configVars, appVars, matcherVars, caller,
                 localVars, prompts>>
  /\ UNCHANGED solverVars

\* stream_service.py, line 242: history_data, one dict per message with the
\* keys sender and content only ("" stands for an absent key)
history_data(hist) ==
  [i \in 1..Len(hist) |->
     [sender |-> hist[i].sender, content |-> hist[i].content, type |-> "", role |-> ""]]

\* Facilitator.generate_final_summary, lines 191-239: the entries kept for
\* the prompt are those with type "agent" or role "facilitator"/"summary",
\* the last 80 of them; the context put in the prompt and the text returned
generate_final_summary(hd, model, plan) ==
  LET relevant_msgs == SelectSeq(hd, LAMBDA h : h.type = "agent"
                                               \/ h.role \in {"facilitator", "summary"})
      n == Len(relevant_msgs)
  IN [context |-> SubSeq(relevant_msgs, IF n > 80 THEN n - 79 ELSE 1, n),
      text |-> get_completion(model, plan, SummaryText).text]

\* lines 242-252: the summary is generated, appended and emitted
FullSummary ==
  /\ pc = "full_summary"
  /\ LET summary == generate_final_summary(history_data(history), model_name, provider_plan).text
     IN /\ history' = Append(history, Message(SummaryName, summary, Meta("summary", "", "", -1)))
        /\ Emit(Ev("summary", "", "", summary))
  /\ pc' = "full_complete"
  /\ UNCHANGED <<registryVars, rounds, facilitatorVars, flagVars, providerVars, configVars, appVars, matcherVars, caller,
                 localVars, prompts>>
  /\ UNCHANGED solverVars

\* line 255
FullComplete ==
  /\ pc = "full_complete"
  /\ Emit(Ev("session_complete", "", "", << >>))
  /\ pc' = "full_done"
  /\ caller' = "none"
  /\ UNCHANGED <<registryVars, history, rounds, facilitatorVars, flagVars, providerVars, configVars, appVars, matcherVars,
                 localVars, prompts>>
  /\ UNCHANGED solverVars

\* POST /session/next_phase, lines 77-93: advance_phase() on the facilitator
\* of the session, whatever else is running on it
next_phase_any ==
  /\ LET r == advance_phase(current_phase) IN
       /\ current_phase' = r.phase
       /\ advance_result' = IF r.result THEN "true" ELSE "false"
  /\ UNCHANGED <<registryVars, history, rounds, custom_rounds, flagVars, providerVars, configVars, appVars, matcherVars, pc, caller,
                 localVars, prompts, events>>
  /\ UNCHANGED solverVars

\* POST /session/next_phase, issued while no runner is in flight on the session
next_phase ==
  /\ pc \in {"idle", "full_done"}
  /\ next_phase_any

\* one stream_full request on a session nobody else writes to, with
\* next_phase requests before and after it
NextFull ==
  \/ stream_full
  \/ FullPhaseStart
  \/ RunnerStep
  \/ FullPhaseEnd
  \/ FullAdvance
  \/ FullSummary
  \/ FullComplete
  \/ next_phase

SpecFull == Init /\ [][NextFull]_vars

\* a session id nobody registered, or a SessionState that was created and
\* never started
InitUninitialized ==
  /\ session_status \in {"unknown", "created"}
  /\ agents = << >>
  /\ history = << >>
  /\ rounds = 0
  /\ current_phase = "opening"
  /\ custom_rounds = << >>
  /\ advance_result = "none"
  /\ is_paused = FALSE
  /\ interrupt_signal = FALSE
  /\ provider_chunks \in 0..MaxChunks
  /\ model_name = DEFAULT_MODEL
  /\ provider_plan = AllModelsUp
  /\ ConfigIdle
  /\ AppIdle
  /\ exclude_indices = {}
  /\ pc = "idle"
  /\ caller = "none"
  /\ phase_rounds = 0
  /\ round_num = 0
  /\ agent_idx = 0
  /\ intro = << >>
  /\ full_prompt = NoPrompt
  /\ full_response = << >>
  /\ prompts = << >>
  /\ events = << >>
  /\ SolverIdle

\* stream_full requests on a session before and after it is started
NextUninitialized ==
  \/ stream_full_uninitialized
  \/ start_session
  \/ stream_full
  \/ FullPhaseStart
  \/ RunnerStep
  \/ FullPhaseEnd
  \/ FullAdvance
  \/ FullSummary
  \/ FullComplete

SpecUninitialized == InitUninitialized /\ [][NextUninitialized]_vars

\* ------------------------------------------------------ phase configuration
\* get_phase_config with the table entry written to instead of a copy of it
get_phase_config_aliased(table, cr, phase) ==
  LET config == IF phase \in DOMAIN cr
                  THEN [table[phase] EXCEPT !.rounds = cr[phase]]
                  ELSE table[phase]
  IN [config |-> config, table |-> [table EXCEPT ![phase] = config]]

\* Facilitator.get_phase_config, lines 167-174, over the table as it is when
\* the call is made: config = PHASE_CONFIG[phase].copy(); an override is
\* written to the copy. The value returned and the table after the call.
get_phase_config_on(table, cr, phase) ==
  LET config == IF phase \in DOMAIN cr
                  THEN [table[phase] EXCEPT !.rounds = cr[phase]]
                  ELSE table[phase]
  IN [config |-> config, table |-> table]

\* the facilitator of this session or of the other one
FacilitatorOf(who) ==
  IF who = "own" THEN [current_phase |-> current_phase, custom_rounds |-> custom_rounds]
  ELSE peer

\* a call of get_phase_config() on either session's facilitator
get_phase_config_call ==
  /\ Len(returned) < MaxCalls
  /\ \E who \in {"own", "peer"} :
       LET f == FacilitatorOf(who)
           r == get_phase_config_on(phase_table, f.custom_rounds, f.current_phase)
       IN /\ returned' = Append(returned, [who |-> who, phase |-> f.current_phase,
                                          config |-> r.config])
          /\ phase_table' = r.table
  /\ UNCHANGED <<registryVars, history, rounds, facilitatorVars, flagVars, providerVars, peer, appVars, matcherVars,
                 pc, caller, localVars, prompts, events>>
  /\ UNCHANGED solverVars

\* advance_phase() on the other session's facilitator
peer_advance_phase ==
  /\ peer' = [peer EXCEPT !.current_phase = advance_phase(peer.current_phase).phase]
  /\ UNCHANGED <<registryVars, history, rounds, facilitatorVars, flagVars, providerVars, appVars, matcherVars,
                 phase_table, returned, pc, caller, localVars, prompts, events>>
  /\ UNCHANGED solverVars

\* two sessions started with their own overrides, no runner in flight
InitConfig ==
  /\ agents = << >>
  /\ session_status = "started"
  /\ history = << >>
  /\ rounds = 0
  /\ current_phase = "opening"
  /\ custom_rounds \in OverrideMaps
  /\ advance_result = "none"
  /\ is_paused = FALSE
  /\ interrupt_signal = FALSE
  /\ provider_chunks = 0
  /\ model_name = DEFAULT_MODEL
  /\ provider_plan = AllModelsUp
  /\ phase_table = PHASE_CONFIG
  /\ peer \in [current_phase : {"opening"}, custom_rounds : OverrideMaps]
  /\ returned = << >>
  /\ AppIdle
  /\ exclude_indices = {}
  /\ pc = "idle"
  /\ caller = "none"
  /\ phase_rounds = 0
  /\ round_num = 0
  /\ agent_idx = 0
  /\ intro = << >>
  /\ full_prompt = NoPrompt
  /\ full_response = << >>
  /\ prompts = << >>
  /\ events = << >>
  /\ SolverIdle

\* get_phase_config() and advance_phase() calls on the two facilitators, in
\* any order
NextConfig ==
  \/ get_phase_config_call
  \/ next_phase
  \/ peer_advance_phase

SpecConfig == InitConfig /\ [][NextConfig]_vars

\* ------------------------------------------------- BrainstormingSession.run_round
\* a round that walks the roster backwards
run_round_reversed ==
  /\ rounds < MaxRunRounds
  /\ rounds' = rounds + 1
  /\ LET response_text == get_completion(model_name, provider_plan, <<"view">>).text
         P == Len(agents)
     IN history' = history \o
          [i \in 1..P |->
             MessageKw(agents[P + 1 - i].name, response_text,
                       Meta("", "", agents[P + 1 - i].role, rounds + 1))]
  /\ UNCHANGED <<registryVars, facilitatorVars, flagVars, providerVars, configVars, appVars, matcherVars,
                 pc, caller, localVars, prompts, events>>
  /\ UNCHANGED solverVars

\* session.py, lines 20-47: run_round() is synchronous, so the whole call is
\* one step: the counter moves first, then every agent in roster order gets
\* one get_completion call whose text is appended with metadata {round, role}
run_round ==
  /\ rounds < MaxRunRounds
  /\ rounds' = rounds + 1
  /\ LET response_text == get_completion(model_name, provider_plan, <<"view">>).text
     IN history' = history \o
          [i \in 1..Len(agents) |->
             MessageKw(agents[i].name, response_text,
                       Meta("", "", agents[i].role, rounds + 1))]
  /\ UNCHANGED <<registryVars, facilitatorVars, flagVars, providerVars, configVars, appVars, matcherVars,
                 pc, caller, localVars, prompts, events>>
  /\ UNCHANGED solverVars

\* run_round() calls on a fresh BrainstormingSession whose provider endpoints
\* may fail
SpecRound == InitProvider /\ [][run_round]_vars

\* the steps of run_full_session_stream once the request is being served
FullRunStep ==
  \/ FullPhaseStart
  \/ RunnerStep
  \/ PausePoll
  \/ FullPhaseEnd
  \/ FullAdvance
  \/ FullSummary
  \/ FullComplete

\* one stream_full request with pause and resume requests arriving at any
\* suspension point. The event loop resumes the generator whenever it can
\* run and every provider call returns: weak fairness of the runner's steps.
\* Nothing is assumed of the clients' pause and resume requests.
NextLive ==
  \/ stream_full
  \/ FullRunStep
  \/ pause_session
  \/ resume_session

SpecLive == Init /\ [][NextLive]_vars /\ WF_vars(FullRunStep)

\* ------------------------------------------------- pause requests of server.py
\* server.py, lines 693-698: the module global is_paused is bound to True;
\* the SessionState of the session is not looked up
server_pause_session ==
  /\ server_is_paused' = "true"
  /\ UNCHANGED <<registryVars, history, rounds, facilitatorVars, flagVars, providerVars, configVars,
                 reset_responses, server_session, matcherVars, pc, caller, localVars, prompts,
                 events>>
  /\ UNCHANGED solverVars

\* server.py, lines 700-705: the module global is_paused is bound to False
server_resume_session ==
  /\ server_is_paused' = "false"
  /\ UNCHANGED <<registryVars, history, rounds, facilitatorVars, flagVars, providerVars, configVars,
                 reset_responses, server_session, matcherVars, pc, caller, localVars, prompts,
                 events>>
  /\ UNCHANGED solverVars

\* the server.py application: one stream_phase request, with its pause and
\* resume requests arriving at any suspension point. Its generate_phase_stream
\* (lines 365-510) is the runner above, polling state.is_paused at line 445
NextServerPause ==
  \/ stream_phase
  \/ RunnerStep
  \/ StreamPhaseEnd
  \/ server_pause_session
  \/ server_resume_session

SpecServerPause == Init /\ [][NextServerPause]_vars

\* one stream_phase request, with pause and resume requests and websocket
\* messages arriving at any suspension point
NextPauseHuman ==
  \/ stream_phase
  \/ RunnerStep
  \/ PausePoll
  \/ StreamPhaseEnd
  \/ pause_session
  \/ resume_session
  \/ websocket_message

SpecPauseHuman == Init /\ [][NextPauseHuman]_vars

\* one stream_phase request, with next_phase requests arriving before it and
\* at any of its suspension points
NextPhaseRace ==
  \/ stream_phase
  \/ RunnerStep
  \/ StreamPhaseEnd
  \/ next_phase_any

\* a fresh session with at most one participant and no round override
InitPhaseRace ==
  /\ Init
  /\ Len(agents) <= 1
  /\ provider_chunks = 1
  /\ custom_rounds = << >>

SpecPhaseRace == InitPhaseRace /\ [][NextPhaseRace]_vars

\* ------------------------------------------------------------ session reset
\* api/routes/session.py, lines 188-194: the SessionState of the id is looked
\* up; when there is one, state.reset() is called on it. SessionState
\* defines __init__ and initialize_session only, so the call raises
\* AttributeError and nothing of the state is changed.
reset_session ==
  /\ Len(reset_responses) < MaxResets
  /\ reset_responses' =
       Append(reset_responses,
              [app |-> "api",
               status |-> IF session_status = "unknown" THEN "reset" ELSE "AttributeError"])
  /\ UNCHANGED <<registryVars, history, rounds, facilitatorVars, flagVars, providerVars, configVars,
                 server_session, server_is_paused, matcherVars, pc, caller, localVars, prompts, events>>
  /\ UNCHANGED solverVars

\* server.py, lines 683-691: the module globals session, facilitator,
\* visualizer and is_paused are rebound; session_manager and its SessionState
\* are not touched
server_reset_session ==
  /\ Len(reset_responses) < MaxResets
  /\ server_session' = "none"
  /\ server_is_paused' = "false"
  /\ reset_responses' = Append(reset_responses, [app |-> "server", status |-> "reset"])
  /\ UNCHANGED <<registryVars, history, rounds, facilitatorVars, flagVars, providerVars, configVars,
                 matcherVars, pc, caller, localVars, prompts, events>>
  /\ UNCHANGED solverVars

\* a session id that is unknown, registered or started when the first
\* request arrives
InitReset ==
  /\ session_status \in {"unknown", "created", "started"}
  /\ \E n \in 0..MaxAgents :
       agents = IF session_status = "started" THEN SubSeq(AgentPool, 1, n) ELSE << >>
  /\ history = << >>
  /\ rounds = 0
  /\ current_phase = "opening"
  /\ custom_rounds = << >>
  /\ advance_result = "none"
  /\ is_paused = FALSE
  /\ interrupt_signal = FALSE
  /\ provider_chunks = 1
  /\ model_name = DEFAULT_MODEL
  /\ provider_plan = AllModelsUp
  /\ ConfigIdle
  /\ AppIdle
  /\ exclude_indices = {}
  /\ pc = "idle"
  /\ caller = "none"
  /\ phase_rounds = 0
  /\ round_num = 0
  /\ agent_idx = 0
  /\ intro = << >>
  /\ full_prompt = NoPrompt
  /\ full_response = << >>
  /\ prompts = << >>
  /\ events = << >>
  /\ SolverIdle

\* reset, pause, resume and start requests of both applications on one
\* session id, and the first answer of the stream_full requests on it
NextReset ==
  \/ reset_session
  \/ server_reset_session
  \/ pause_session
  \/ resume_session
  \/ start_session
  \/ stream_full_uninitialized
  \/ stream_full

SpecReset == InitReset /\ [][NextReset]_vars

\* -------------------------------------------- properties of the session runners
RECURSIVE SumRounds(_, _)
\* the sum over the phases i..7 of the configured round count
SumRounds(cr, i) ==
  IF i > Len(Phases) THEN 0
  ELSE get_phase_config(cr, Phases[i]).rounds + SumRounds(cr, i + 1)

\* a stream_full run that started at OPENING has finished
FullRunDone == pc = "full_done" /\ CountEvents(events, "phase_start") = Len(Phases)

\* C1: after a full session run from OPENING, len(history) is 7 openings plus
\* the configured round count of each phase (override, else static default)
\* times the number of participants, plus 1 summary
C1_HistoryLength ==
  FullRunDone =>
    Len(history) = Len(Phases) + SumRounds(custom_rounds, 1) * Len(agents) + 1

\* C2: when a phase run ends, the number of participant turns it executed is
\* the round count of get_phase_config() times the roster size, and with a
\* round count of 0 the run emitted the opening only
C2_RoundsFollowConfig ==
  (pc = "phase_done" /\ caller = "phase") =>
    LET configured == get_phase_config(custom_rounds, current_phase).rounds IN
      /\ CountEvents(events, "agent_typing") = configured * Len(agents)
      /\ CountEvents(events, "message_complete") = configured * Len(agents)
      /\ configured = 0 =>
           EventNames(events) = <<"phase_start", "message", "phase_complete">>

\* an advance_phase() call: the route or the full-session loop
AdvanceCall == next_phase \/ FullAdvance

\* C3: every successful advance_phase() moves to the immediately following
\* phase, and at OUTPUT every call returns False and leaves the phase alone;
\* the phase never changes in any other way
C3_AdvanceLinear ==
  [][ /\ AdvanceCall =>
           IF current_phase = "output"
             THEN current_phase' = "output" /\ advance_result' = "false"
             ELSE /\ PhaseIndex(current_phase') = PhaseIndex(current_phase) + 1
                  /\ advance_result' = "true"
      /\ current_phase' # current_phase => AdvanceCall ]_vars

\* advance_phase() was called at OUTPUT and returned False
C3_Witness == current_phase = "output" /\ advance_result = "false" /\ pc = "full_done"

\* C4: a participant turn that begins leaves the interrupt flag down, and its
\* prompt is urgent only if the flag was up when the turn began; so any number
\* of sets before a turn yields one urgent turn, and the turn after it is not
\* urgent unless the flag was set again
C4_InterruptOnce ==
  [][ TurnBegin =>
        /\ interrupt_signal' = FALSE
        /\ full_prompt'.instruction = "urgent" => interrupt_signal ]_vars

\* both human texts were in history, each having set the flag, when the first
\* prompt was built; that turn was urgent and the following one was not
C4_Witness ==
  /\ Len(prompts) >= 2
  /\ prompts[1].instruction = "urgent"
  /\ prompts[2].instruction = "special"
  /\ HumanTexts \subseteq Contents(SubSeq(history, 1, prompts[1].context))
  /\ interrupt_signal = FALSE

NewEvents == SubSeq(events', Len(events) + 1, Len(events'))

\* C5 as stated: no message_chunk is emitted in a step taken while is_paused
\* is and stays true, and when a pause ends a paused event has been emitted
C5_NoChunkWhilePaused ==
  [][ /\ (is_paused /\ is_paused') =>
           CountEvents(events', "message_chunk") = CountEvents(events, "message_chunk")
      /\ (is_paused /\ ~is_paused') => CountEvents(events, "paused") >= 1 ]_vars

\* C5 amended: the pause flag takes effect at the checkpoint of a participant's
\* turn (prompt built, typing indicator not yet sent). A checkpoint or poll that
\* finds the flag up emits exactly a paused event and stays in the loop; the
\* loop is left only by a poll that finds the flag down; and while the runner
\* is in the loop the last event is a paused event, so no agent_typing,
\* message_chunk or message_complete is emitted from it
C5_PauseAtCheckpoint ==
  /\ [](pc = "pause" => events[Len(events)].event = "paused")
  /\ [][ /\ ((TurnBegin \/ PausePoll) /\ is_paused) =>
              /\ pc' = "pause"
              /\ NewEvents = <<Ev("paused", "", "", << >>)>>
         /\ (pc = "pause" /\ pc' # "pause") => ~is_paused
         /\ CountEvents(events', "message_chunk") > CountEvents(events, "message_chunk") =>
              pc \in {"call", "stream"} ]_vars

\* the runner is suspended in the poll loop of the second participant
C5_Witness ==
  /\ pc = "pause"
  /\ is_paused
  /\ agent_idx = 2
  /\ CountEvents(events, "message_chunk") >= 1

\* senders of the messages in hist that are not facilitator openings
RECURSIVE AgentSenders(_)
AgentSenders(hist) ==
  IF hist = << >> THEN << >>
  ELSE IF Head(hist).sender = FacilitatorName THEN AgentSenders(Tail(hist))
  ELSE <<Head(hist).sender>> \o AgentSenders(Tail(hist))

\* the roster, r times over
RosterTimes(roster, r) ==
  [k \in 1..(r * Len(roster)) |-> roster[((k - 1) % Len(roster)) + 1].name]

\* C6: leaving the pause loop continues with the participant that was pending
\* (its typing indicator, same round, same roster position), and when the
\* phase run ends the agent messages are the roster in order, once per round
C6_ResumeSameParticipant ==
  /\ []((pc = "phase_done") => AgentSenders(history) = RosterTimes(agents, phase_rounds))
  /\ [][ (pc = "pause" /\ pc' # "pause") =>
            /\ pc' = "call"
            /\ agent_idx' = agent_idx
            /\ round_num' = round_num
            /\ NewEvents = <<Ev("agent_typing", agents[agent_idx].name, "", << >>)>> ]_vars

\* a phase run of two participants ended, and it was paused at the second
\* participant's turn after the first one's message
C6_Witness ==
  /\ pc = "phase_done"
  /\ Len(agents) = 2
  /\ \E i, j \in 1..Len(events) :
       /\ i < j
       /\ events[i].event = "message_complete"
       /\ events[j].event = "paused"
       /\ \E k \in (j + 1)..Len(events) :
            events[k].event = "agent_typing" /\ events[k].agent = "a2"

\* s has no element twice
NoRepeat(s) == \A i, j \in 1..Len(s) : s[i] = s[j] => i = j

FallbackPosition(m) == CHOOSE i \in 1..Len(FALLBACK_MODELS) : FALLBACK_MODELS[i] = m

\* tried is the requested model, then fallbacks in configured order, none
\* twice; every attempt but the last failed; and the chain ends at a model
\* that answers or, all having failed, with every fallback tried
FallbackChain(tried, model, plan) ==
  /\ Len(tried) >= 1
  /\ tried[1] = model
  /\ NoRepeat(tried)
  /\ \A i \in 2..Len(tried) :
       /\ \E k \in 1..Len(FALLBACK_MODELS) : FALLBACK_MODELS[k] = tried[i]
       /\ \A j \in 2..(i - 1) : FallbackPosition(tried[j]) < FallbackPosition(tried[i])
  /\ \A i \in 1..(Len(tried) - 1) : plan[tried[i]].raises
  /\ plan[tried[Len(tried)]].raises =>
       \A k \in 1..Len(FALLBACK_MODELS) :
         \E i \in 1..Len(tried) : tried[i] = FALLBACK_MODELS[k]

\* every model of the chain failed
Exhausted(tried, plan) == plan[tried[Len(tried)]].raises

\* C11: a provider call tries the requested model and then each fallback in
\* order, each at most once, and stops at the first that answers; when all
\* fail it hands back the sentinel, so the runner still emits
\* message_complete and appends a message for the participant: every turn is
\* taken once, in roster order, none skipped and none repeated
C11_FallbackThenSentinel ==
  LET g == get_completion(model_name, provider_plan, IntroText)
      s == get_completion_stream(model_name, provider_plan, provider_chunks)
      completes == CountEvents(events, "message_complete")
      typings == CountEvents(events, "agent_typing")
  IN
  /\ FallbackChain(g.tried, model_name, provider_plan)
  /\ FallbackChain(s.tried, model_name, provider_plan)
  /\ g.text = IF Exhausted(g.tried, provider_plan) THEN SystemErrorText ELSE IntroText
  /\ IF Exhausted(s.tried, provider_plan)
       THEN s.out # << >> /\ s.out[Len(s.out)] = SystemErrorChunk
       ELSE \A i \in 1..Len(s.out) : s.out[i] = ChunkText
  /\ \A i \in 1..Len(events) :
       /\ events[i].event = "message" => events[i].content = g.text
       /\ events[i].event = "message_complete" => events[i].content = s.out
  /\ \A i \in 1..Len(history) :
       history[i].content = IF history[i].sender = FacilitatorName THEN g.text ELSE s.out
  /\ Len(prompts) = IF pc = "call" THEN typings - 1 ELSE typings
  /\ completes = IF pc \in {"call", "stream"} THEN typings - 1 ELSE typings
  /\ Len(AgentSenders(history)) = IF pc = "append" THEN completes - 1 ELSE completes
  /\ pc = "phase_done" =>
       /\ AgentSenders(history) = RosterTimes(agents, phase_rounds)
       /\ completes = phase_rounds * Len(agents)
       /\ CountEvents(events, "message") = 1

\* a phase run of two participants ended although every model failed, one of
\* them after a chunk: each participant's message ends with the sentinel
C11_Witness ==
  /\ pc = "phase_done"
  /\ Len(agents) = 2
  /\ phase_rounds >= 1
  /\ \A m \in Models : provider_plan[m].raises
  /\ \E m \in Models : provider_plan[m].partial > 0
  /\ CountEvents(events, "message_complete") = phase_rounds * 2
  /\ \A i \in 2..Len(history) :
       history[i].content[Len(history[i].content)] = SystemErrorChunk

\* the phase_start, phase_complete and phase_transition events, in order
PhaseEvents(evs) ==
  SelectSeq(evs, LAMBDA e : e.event \in {"phase_start", "phase_complete", "phase_transition"})

RECURSIVE PhasePasses(_)
\* one runner pass per phase from phase i on, a transition between two passes
PhasePasses(i) ==
  <<Ev("phase_start", "", Phases[i], << >>), Ev("phase_complete", "", Phases[i], << >>)>>
    \o (IF i = Len(Phases) THEN << >>
        ELSE <<Ev("phase_transition", "", Phases[i + 1], << >>)>> \o PhasePasses(i + 1))

\* the full-session run in progress or finished started at OPENING
StartedAtOpening ==
  \E i \in 1..Len(events) :
    /\ events[i] = Ev("phase_start", "", "opening", << >>)
    /\ \A j \in 1..(i - 1) : events[j].event # "phase_start"

\* C12: a full-session run started at OPENING runs the phase runner once per
\* phase in order, with one phase_transition between the phase_complete of a
\* phase and the phase_start of the next, six in all and none after OUTPUT;
\* it leaves the phase loop only when advance_phase() returned False
C12_OnePassPerPhase ==
  /\ [](StartedAtOpening =>
          LET seen == PhaseEvents(events) IN
            /\ Len(seen) <= Len(PhasePasses(1))
            /\ seen = SubSeq(PhasePasses(1), 1, Len(seen))
            /\ pc \in {"full_summary", "full_complete", "full_done"} =>
                 /\ seen = PhasePasses(1)
                 /\ CountEvents(events, "phase_transition") = Len(Phases) - 1)
  /\ [][ (pc # "full_summary" /\ pc' = "full_summary") =>
            /\ pc = "full_advance"
            /\ advance_result' = "false"
            /\ ~advance_phase(current_phase).result ]_vars

\* a run over a roster of two went through the seven phases and ended
C12_Witness ==
  /\ FullRunDone
  /\ StartedAtOpening
  /\ Len(agents) = 2
  /\ CountEvents(events, "phase_transition") = 6
  /\ CountEvents(events, "session_complete") = 1

\* C13: when a full-session run has ended, the summary is in history exactly
\* once, as the last entry and with metadata type "summary", and
\* session_complete was emitted exactly once, as the last event, after the
\* summary event
C13_SummaryThenComplete ==
  pc = "full_done" =>
    /\ Cardinality({i \in 1..Len(history) : history[i].sender = SummaryName}) = 1
    /\ history[Len(history)].sender = SummaryName
    /\ history[Len(history)].metadata.type = "summary"
    /\ CountEvents(events, "session_complete") = 1
    /\ events[Len(events)].event = "session_complete"
    /\ events[Len(events) - 1].event = "summary"

\* a run_full_session_stream generator is started
FullRequest == stream_full \/ stream_full_uninitialized

\* C14: run_full_session_stream on a session that is unknown or not started
\* emits exactly one error event and nothing else, appends nothing to any
\* history and returns; until the session is started no other event exists
C14_UninitializedError ==
  /\ [](~Initialized(session_status) =>
          /\ history = << >>
          /\ pc = "idle"
          /\ \A i \in 1..Len(events) : events[i].event = "error")
  /\ [][ (FullRequest /\ session_status # "started") =>
            /\ NewEvents = <<Ev("error", "", "", << >>)>>
            /\ history' = history
            /\ pc' = "idle"
            /\ caller' = "none" ]_vars

\* two requests on a session that was never started, each answered by an
\* error event and nothing else
C14_Witness ==
  /\ session_status = "created"
  /\ EventNames(events) = <<"error", "error">>
  /\ history = << >>
  /\ pc = "idle"

\* the senders of the messages the runner appended for participant turns:
\* roster names, the mention handler's replies (type "agent") left out
RECURSIVE TurnSenders(_, _)
TurnSenders(hist, roster) ==
  IF hist = << >> THEN << >>
  ELSE LET m == Head(hist) IN
    IF /\ \E i \in 1..Len(roster) : roster[i].name = m.sender
       /\ m.metadata.type # "agent"
      THEN <<m.sender>> \o TurnSenders(Tail(hist), roster)
      ELSE TurnSenders(Tail(hist), roster)

\* the participant whose turn is number k of the phase run (k from 1)
TurnOwner(roster, k) == roster[((k - 1) % Len(roster)) + 1].name

C16_MentionSeenByTurn ==
  /\ [](\A i \in 1..Len(history) :
          history[i].sender = HumanName =>
            /\ history[i].metadata.type = "human"
            /\ history[i].timestamp.number)
  /\ [][ (TurnBegin /\ \E i \in 1..Len(Last3(history)) :
                         Last3(history)[i].sender = HumanName) =>
            full_prompt'.instruction # "none" ]_vars

\* C17: a phase run of R rounds over P participants leaves in history one
\* facilitator opening followed by R x P agent messages, for every P >= 0;
\* over an empty roster it emits the facilitator message, no
\* message_complete, then phase_complete, and ends normally
C17_OpeningThenTurns ==
  pc = "phase_done" =>
    /\ Len(history) = 1 + phase_rounds * Len(agents)
    /\ history[1].sender = FacilitatorName
    /\ \A i \in 2..Len(history) : history[i].sender = TurnOwner(agents, i - 1)
    /\ CountEvents(events, "message_complete") = phase_rounds * Len(agents)
    /\ events[Len(events)].event = "phase_complete"
    /\ Len(agents) = 0 =>
         SelectSeq(EventNames(events), LAMBDA e : e # "round_start")
           = <<"phase_start", "message", "phase_complete">>

\* a run of two rounds over an empty roster ended
C17_Witness ==
  /\ pc = "phase_done"
  /\ Len(agents) = 0
  /\ phase_rounds = 2
  /\ Len(history) = 1
  /\ CountEvents(events, "round_start") = 2
  /\ CountEvents(events, "phase_complete") = 1

\* a phase run ends in this step
PhaseRunEnds == pc # "phase_done" /\ pc' = "phase_done"

\* C18 as stated: every phase run moves the round counter by exactly 1
C18_OnePerPhaseRun ==
  [][ PhaseRunEnds => rounds' = rounds + 1 ]_vars

\* C18 amended: the round counter moves only in the step that ends a phase
\* run, after the last round, and then by exactly 1 when the run had at least
\* one round and not at all when it had none; it never moves per round or
\* between turns, so the agent messages of one phase run all record the same
\* round value
C18_OnePerPhaseRunWithRounds ==
  /\ [](\A i, j \in 1..Len(history) :
          (/\ history[i].timestamp.dict.role # ""
           /\ history[j].timestamp.dict.role # ""
           /\ history[i].timestamp.dict.phase = history[j].timestamp.dict.phase) =>
            history[i].timestamp.dict.round = history[j].timestamp.dict.round)
  /\ [][ /\ PhaseRunEnds =>
              rounds' = IF phase_rounds > 0 THEN rounds + 1 ELSE rounds
         /\ rounds' # rounds => (PhaseRunEnds /\ round_num = phase_rounds) ]_vars

\* a phase run of two rounds over two participants has ended: its four
\* messages record round 0 and the counter is at 1
C18_Witness ==
  /\ pc = "phase_done"
  /\ current_phase = "opening"
  /\ phase_rounds = 2
  /\ rounds = 1
  /\ Len(agents) = 2
  /\ Cardinality({i \in 1..Len(history) :
                    /\ history[i].timestamp.dict.role # ""
                    /\ history[i].timestamp.dict.round = 0}) = 4

\* the position of the last agent_typing event before position j (0: none)
TypingBefore(evs, j) ==
  LET S == {k \in 1..(j - 1) : evs[k].event = "agent_typing"}
  IN IF S = {} THEN 0 ELSE CHOOSE k \in S : \A l \in S : l <= k

\* the chunk fields of the events at positions a..b, concatenated in order
RECURSIVE ChunkConcat(_, _, _)
ChunkConcat(evs, a, b) ==
  IF a > b THEN << >> ELSE evs[a].content \o ChunkConcat(evs, a + 1, b)

\* the messages the runner appended for participant turns
TurnMessages(hist) == SelectSeq(hist, LAMBDA m : m.sender # FacilitatorName)

\* the message_complete events, in emission order
Completes(evs) == SelectSeq(evs, LAMBDA e : e.event = "message_complete")

\* C21: the content of every message_complete, and of the message the turn
\* appends to history, is the concatenation in emission order of the chunks
\* emitted for that sender since its agent_typing; between the agent_typing
\* and the message_complete only message_chunk events of that sender occur
C21_ChunksReconstructMessage ==
  /\ \A j \in 1..Len(events) :
       events[j].event = "message_complete" =>
         LET k == TypingBefore(events, j) IN
           /\ k > 0
           /\ events[k].agent = events[j].agent
           /\ \A i \in (k + 1)..(j - 1) :
                /\ events[i].event = "message_chunk"
                /\ events[i].agent = events[j].agent
           /\ events[j].content = ChunkConcat(events, k + 1, j - 1)
  /\ LET turn == TurnMessages(history)
         done == Completes(events)
     IN /\ Len(turn) = IF pc = "append" THEN Len(done) - 1 ELSE Len(done)
        /\ \A n \in 1..Len(turn) :
             /\ turn[n].sender = done[n].agent
             /\ turn[n].content = done[n].content

\* the second participant's turn ended after the first model failed one chunk
\* into its stream: both messages are in history, each the two chunks of its
\* turn and more than the chunks of the model that answered
C21_Witness ==
  /\ pc \in {"turn", "round_head"}
  /\ Len(agents) = 2
  /\ provider_chunks = 1
  /\ provider_plan[model_name] = ModelDown(1)
  /\ Len(TurnMessages(history)) = 2
  /\ TurnMessages(history)[1].sender = "a1"
  /\ TurnMessages(history)[2].sender = "a2"
  /\ TurnMessages(history)[2].content = <<ChunkText, ChunkText>>
  /\ CountEvents(events, "message_chunk") = 4

\* C22: a failure of the emotion update at the start of a participant's turn
\* does not block generation: the generator is never ended by an exception,
\* and the turn goes on to its pause check and typing indicator as any other
C22_EmotionFailureTolerated ==
  /\ [](pc # "raised")
  /\ [][ (TurnBegin /\ update_emotions(history).raised) =>
            /\ pc' \in {"pause", "call"}
            /\ Len(events') = Len(events) + 1 ]_vars

\* run_full_session_stream has emitted session_start / session_complete
FullStarted == CountEvents(events, "session_start") = 1

FullCompleted == CountEvents(events, "session_complete") = 1

\* the run is suspended in the pause poll loop with the flag up
WaitsInPauseLoop == pc = "pause" /\ is_paused

C24_PhaseConfigPure ==
  /\ [](phase_table = PHASE_CONFIG)
  /\ [](\A i \in 1..Len(returned) :
          LET cr == IF returned[i].who = "own" THEN custom_rounds ELSE peer.custom_rounds
              phase == returned[i].phase
          IN /\ returned[i].config.agent_prompt = PHASE_CONFIG[phase].agent_prompt
             /\ returned[i].config.rounds =
                  IF phase \in DOMAIN cr THEN cr[phase] ELSE PHASE_CONFIG[phase].rounds)
  /\ [](\A i, j \in 1..Len(returned) :
          (returned[i].who = returned[j].who /\ returned[i].phase = returned[j].phase) =>
            returned[i].config = returned[j].config)
  /\ [][ get_phase_config_call =>
           /\ UNCHANGED <<current_phase, custom_rounds, peer, phase_table>>
           /\ Len(returned') = Len(returned) + 1 ]_vars

\* this session overrides the rounds of DIVERGE to 0 and the other session
\* has no override for it: called one after the other in that phase, the
\* first gets 0 rounds and the second the static 2
C24_Witness ==
  /\ Len(returned) = 2
  /\ returned[1].who = "own"
  /\ returned[1].phase = "diverge"
  /\ returned[1].config.rounds = 0
  /\ returned[2].who = "peer"
  /\ returned[2].phase = "diverge"
  /\ returned[2].config.rounds = 2

\* C25: run_round() moves rounds by exactly 1 and appends exactly one message
\* per agent in roster order: after k calls on a session of P agents rounds
\* is k and history holds k x P messages whose senders cycle through the
\* roster in order, each recording the round it was said in
C25_RunRoundAppendsRoster ==
  /\ [](/\ Len(history) = rounds * Len(agents)
        /\ \A i \in 1..Len(history) :
             /\ history[i].sender = TurnOwner(agents, i)
             /\ history[i].metadata.round = ((i - 1) \div Len(agents)) + 1)
  /\ [][ run_round =>
           /\ rounds' = rounds + 1
           /\ Len(history') = Len(history) + Len(agents)
           /\ SubSeq(history', 1, Len(history)) = history ]_vars

\* three calls on a session of two agents
C25_Witness ==
  /\ rounds = 3
  /\ Len(agents) = 2
  /\ Len(history) = 6
  /\ history[5].sender = "a1"
  /\ history[6].sender = "a2"
  /\ pc = "idle"

C29_AgentMessageMetadata ==
  \A i \in 1..Len(history) :
    \A k \in 1..Len(agents) :
      history[i].sender = agents[k].name =>
        /\ history[i].metadata.phase \in PhaseIds
        /\ history[i].metadata.role = agents[k].role
        /\ history[i].metadata.round >= 0
        /\ history[i].timestamp.number

\* C30: the final-summary call gets the history as context: when the history
\* holds messages of the facilitator or of participants, the context put in
\* the prompt is not empty and holds each of them (up to the tail of 80)
C30_SummaryContextHoldsHistory ==
  [][ FullSummary =>
        LET context == generate_final_summary(history_data(history),
                                              model_name, provider_plan).context
        IN history # << >> =>
             /\ context # << >>
             /\ \A i \in 1..Len(history) :
                  \E k \in 1..Len(context) :
                    /\ context[k].sender = history[i].sender
                    /\ context[k].content = history[i].content ]_vars

\* C31: a reset request completes without error and leaves the session
\* destroyed: after it the session is not initialized (a state query or a
\* stream_full request finds it not started) and it is not paused, whether
\* or not it had been started.
C31_ResetDestroysSession ==
  [][Len(reset_responses') > Len(reset_responses) =>
       /\ reset_responses'[Len(reset_responses')].status = "reset"
       /\ ~Initialized(session_status')
       /\ ~is_paused']_vars

\* C34: a pause request sets, and a resume request clears, the is_paused flag
\* of the SessionState the running phase runner polls, so that after a pause
\* request no participant's turn starts until a resume request is made.
C34_PauseReachesRunner ==
  /\ [][server_pause_session => is_paused']_vars
  /\ [][server_resume_session => ~is_paused']_vars
  /\ [][(server_is_paused = "true" /\ server_is_paused' = "true") =>
          CountEvents(events', "agent_typing") = CountEvents(events, "agent_typing")]_vars

\* the step in which a turn leaves the pause loop
ResumesTurn == pc = "pause" /\ pc' = "call"

\* C35: when a turn has waited in the pause loop, the prompt it sends after
\* resume reflects the history as it is at resume: it has every message
\* appended while the runner was paused as context, and a human message among
\* the last three selects the human priority instruction.
C35_PromptReflectsResume ==
  [][ResumesTurn =>
        /\ full_prompt'.context = Len(history')
        /\ (\E i \in 1..Len(Last3(history')) : Last3(history')[i].metadata.type = "human")
              => full_prompt'.instruction # "none"]_vars

\* C36: the chunks one get_completion_stream call yields all come from a
\* single model attempt: the message the runner has accumulated when the
\* stream ends holds no chunks of two different attempts.
C36_SingleAttemptPerMessage ==
  pc = "append" =>
    LET s == get_completion_stream(model_name, provider_plan, provider_chunks) IN
      /\ full_response = s.out
      /\ \A i, j \in 1..Len(s.by) :
           (s.by[i] \in Models /\ s.by[j] \in Models) => s.by[i] = s.by[j]

\* the phase a history message was built with: the dict handed to Message()
PhaseOf(m) == IF m.metadata.phase # "" THEN m.metadata.phase ELSE m.timestamp.dict.phase

\* C38: all events and history messages one generate_phase_stream invocation
\* produces refer to one phase, the phase that was current when it started,
\* even if next_phase is called on the session while the stream is running.
C38_OnePhasePerInvocation ==
  events # << >> =>
    /\ \A i \in 1..Len(events) : events[i].phase # "" => events[i].phase = events[1].phase
    /\ \A i \in 1..Len(history) : PhaseOf(history[i]) # "" => PhaseOf(history[i]) = events[1].phase

\* ============================================================ solve pipeline
\* bounds of the solve requests
MaxExperts == 2      \* max_experts of a request: 1..MaxExperts
MaxIterations == 2   \* iteration_rounds of a request: 1..MaxIterations

\* the first entries of EXPERT_CATALOG, by name; the catalog is 0-indexed
EXPERT_CATALOG ==
  <<"product_manager", "control_software_expert", "embedded_software_expert",
    "product_planning_expert", "iot_expert", "triz_expert", "thermal_expert">>

\* the rows of DOMAIN_TO_EXPERT_INDEX that point into those entries
DOMAIN_TO_EXPERT_INDEX ==
  [product_planning |-> <<0, 3>>, embedded |-> <<2>>, iot |-> <<4>>, triz |-> <<5>>,
   thermal |-> <<6>>]

\* rows of DOMAIN_KEYWORDS, in dict order
DOMAIN_KEYWORDS ==
  << [domain |-> "product_planning", keywords |-> {"product", "market"}],
     [domain |-> "iot", keywords |-> {"IoT", "network"}],
     [domain |-> "triz", keywords |-> {"innovation"}],
     [domain |-> "thermal", keywords |-> {"cooling"}] >>

DefaultDomain == "product_planning"
WholeProblem == "problem"

\* str.lower() on the words used here
Lower(word) == IF word = "IoT" THEN "iot" ELSE IF word = "Cooling" THEN "cooling" ELSE word

\* IntentAnalyzer._quick_domain_detect: the domains with a keyword in the
\* lowered problem, in table order
quick_domain_detect(p) ==
  LET problem_lower == {Lower(w) : w \in p}
      hit(row) == row.keywords \cap problem_lower # {}
      rows == SelectSeq(DOMAIN_KEYWORDS, hit)
  IN [i \in 1..Len(rows) |-> rows[i].domain]

\* what get_completion_async hands to analyze(): an exception, text that is
\* not JSON (prose, the mock reply, the exhaustion sentinel), JSON that is not
\* an object, or a JSON object with or without the expected keys
IntentResponse(kind, has_domains, domains, has_sub_problems, sub_problems) ==
  [kind |-> kind, has_domains |-> has_domains, domains |-> domains,
   has_sub_problems |-> has_sub_problems, sub_problems |-> sub_problems]

IntentResponses ==
  { IntentResponse("raise", FALSE, << >>, FALSE, << >>),
    IntentResponse("text", FALSE, << >>, FALSE, << >>),
    IntentResponse("json_array", FALSE, << >>, FALSE, << >>),
    IntentResponse("json_object", TRUE, <<"thermal", "product_planning">>, TRUE,
                   <<"s1", "s2", "s3">>),
    IntentResponse("json_object", TRUE, << >>, TRUE, <<"s1">>),
    IntentResponse("json_object", FALSE, << >>, FALSE, << >>) }

\* IntentAnalyzer.analyze: the parsed object's fields with result.get()
\* defaults, or the except branch for anything json.loads / .get() rejects
analyze(p, response) ==
  LET quick_domains == quick_domain_detect(p) IN
  IF response.kind = "json_object"
  THEN [domains |-> IF response.has_domains THEN response.domains ELSE quick_domains,
        sub_problems |-> IF response.has_sub_problems THEN response.sub_problems
                         ELSE <<WholeProblem>>,
        confidence |-> 9]
  ELSE [domains |-> IF quick_domains # << >> THEN quick_domains ELSE <<DefaultDomain>>,
        sub_problems |-> <<WholeProblem>>,
        confidence |-> 5]

\* ---- expert matching
\* s[:n]: the first n entries, all but the last -n when n is negative
Prefix(s, n) ==
  LET stop == IF n >= 0 THEN n ELSE Len(s) + n IN
    SubSeq(s, 1, IF stop < 0 THEN 0 ELSE IF stop < Len(s) THEN stop ELSE Len(s))

\* ExpertMatcher.get_expert_by_index: the entry's name, "" for None
get_expert_by_index(index) ==
  IF 0 <= index /\ index < Len(EXPERT_CATALOG) THEN EXPERT_CATALOG[index + 1] ELSE ""

\* relevance_score 1.0 and 0.5, doubled
MatchedExpert(index, matched_domain, relevance_score) ==
  [index |-> index, name |-> EXPERT_CATALOG[index + 1], matched_domain |-> matched_domain,
   relevance_score |-> relevance_score, assigned_sub_problem |-> << >>]

\* the test for an expert already added, always negative
HasIndex_never(matched, idx) == FALSE

\* any(m.index == idx for m in matched)
HasIndex(matched, idx) == \E k \in 1..Len(matched) : matched[k].index = idx

\* inner loop of match_by_domains over DOMAIN_TO_EXPERT_INDEX[domain]
RECURSIVE AddIndices(_, _, _, _)
AddIndices(matched, idxs, domain, exclude) ==
  IF idxs = << >> THEN matched
  ELSE IF \/ Head(idxs) \in exclude
          \/ Head(idxs) >= Len(EXPERT_CATALOG)
          \/ HasIndex(matched, Head(idxs))
       THEN AddIndices(matched, Tail(idxs), domain, exclude)
       ELSE AddIndices(Append(matched, MatchedExpert(Head(idxs), domain, 2)),
                       Tail(idxs), domain, exclude)

\* outer loop of match_by_domains over domains
RECURSIVE AddDomains(_, _, _)
AddDomains(matched, domains, exclude) ==
  IF domains = << >> THEN matched
  ELSE AddDomains(IF Head(domains) \in DOMAIN DOMAIN_TO_EXPERT_INDEX
                  THEN AddIndices(matched, DOMAIN_TO_EXPERT_INDEX[Head(domains)],
                                  Head(domains), exclude)
                  ELSE matched,
                  Tail(domains), exclude)

\* list.sort(key=relevance_score, reverse=True): stable, two score values
SortByRelevance(matched) ==
  LET high(m) == m.relevance_score = 2
      low(m) == m.relevance_score # 2
  IN SelectSeq(matched, high) \o SelectSeq(matched, low)

\* ExpertMatcher.match_by_domains; exclude is set(exclude_indices or [])
match_by_domains(domains, limit, exclude) ==
  LET matched == AddDomains(<< >>, domains, exclude)
      short == Len(matched) < limit
      with0 == IF short /\ 0 \notin exclude /\ ~HasIndex(matched, 0)
               THEN Append(matched, MatchedExpert(0, "general", 1)) ELSE matched
      with5 == IF short /\ 5 \notin exclude /\ ~HasIndex(with0, 5)
               THEN Append(with0, MatchedExpert(5, "innovation_method", 1)) ELSE with0
  IN Prefix(SortByRelevance(with5), limit)

\* the round-robin loop of match_with_sub_problems, i counting from 0
RECURSIVE AssignSubProblems(_, _, _)
AssignSubProblems(experts, subs, i) ==
  IF i >= Len(subs) THEN experts
  ELSE AssignSubProblems(
         [experts EXCEPT ![(i % Len(experts)) + 1].assigned_sub_problem =
            IF i < Len(experts) THEN <<subs[i + 1]>> ELSE Append(@, subs[i + 1])],
         subs, i + 1)

\* ExpertMatcher.match_with_sub_problems
match_with_sub_problems(domains, subs, limit) ==
  LET experts == match_by_domains(domains, limit, {}) IN
  IF experts = << >> \/ subs = << >> THEN experts ELSE AssignSubProblems(experts, subs, 0)

\* the loop over selected_expert_indices[:max_experts]
RECURSIVE SelectedExperts(_)
SelectedExperts(idxs) ==
  IF idxs = << >> THEN << >>
  ELSE IF get_expert_by_index(Head(idxs)) = "" THEN SelectedExperts(Tail(idxs))
       ELSE <<MatchedExpert(Head(idxs), "user_selected", 2)>> \o SelectedExperts(Tail(idxs))

\* step 2 of solve_stream: the selected experts, or the automatic match
MatchStream(selected, limit, it) ==
  IF selected # << >> THEN SelectedExperts(Prefix(selected, limit))
  ELSE match_with_sub_problems(it.domains, it.sub_problems, limit)

\* step 2 of solve: the same, with the default expert when nothing matched
MatchSolve(selected, limit, it) ==
  IF MatchStream(selected, limit, it) = << >> THEN match_by_domains(<<DefaultDomain>>, 1, {})
  ELSE MatchStream(selected, limit, it)

\* ---- provider calls and the solutions built from them
\* how one get_completion_async call ends: model text, the sentinel returned
\* when every model failed, or an exception reaching the caller.  The call
\* always suspends before it ends, and model text is never blank.
ProviderOutcomes == {"text", "exhausted", "raise"}

AnswerText == <<"answer">>
ImprovedText == <<"improved">>
IntegratedText == <<"integrated">>
AsyncError == <<"[Async Error]">>
SolveFailed == <<"[solve failed]">>
ConcatHeader == <<"## summary">>

\* the string a call that did not raise returns
Completion(outcome, text) == IF outcome = "exhausted" THEN AsyncError ELSE text

NoSolution == [expert_name |-> "", sub_problem |-> << >>, solution |-> << >>]

SubProblemSolution(expert, solution) ==
  [expert_name |-> expert.name,
   sub_problem |-> IF expert.assigned_sub_problem # << >> THEN expert.assigned_sub_problem
                   ELSE <<WholeProblem>>,
   solution |-> solution]

\* _solve_single with its except clause removed: the exception leaves the task
solve_single_propagates(expert, outcome) ==
  IF outcome = "raise" THEN [raised |-> TRUE, value |-> NoSolution]
  ELSE [raised |-> FALSE,
        value |-> SubProblemSolution(expert, Completion(outcome, AnswerText))]

\* _solve_single: the call's string, or the failure string of the except
\* clause, in a SubProblemSolution named after the expert; it never raises
solve_single(expert, outcome) ==
  [raised |-> FALSE,
   value |-> SubProblemSolution(expert, IF outcome = "raise" THEN SolveFailed
                                        ELSE Completion(outcome, AnswerText))]

\* results collected as the calls complete (asyncio.as_completed)
ResultSlot_completion_order(i, ndone) == ndone + 1

\* asyncio.gather: the result of the i-th awaitable is the i-th result
ResultSlot(i, ndone) == i

\* return as soon as one task is done (asyncio.wait, FIRST_COMPLETED)
gather_first_completed(tsk) ==
  IF \E i \in 1..Len(tsk) : tsk[i].status = "raised" THEN "raised"
  ELSE IF tsk = << >> \/ (\E i \in 1..Len(tsk) : tsk[i].status = "returned") THEN "returned"
  ELSE "pending"

\* asyncio.gather: the first exception propagates at once; otherwise the
\* gather is done when every task has returned
gather(tsk) ==
  IF \E i \in 1..Len(tsk) : tsk[i].status = "raised" THEN "raised"
  ELSE IF \A i \in 1..Len(tsk) : tsk[i].status = "returned" THEN "returned"
  ELSE "pending"

\* one iteration of the loop of _improve_solutions: the bare except keeps the
\* old solution, any returned string replaces it
improve_one(solution, outcome) ==
  IF outcome = "raise" THEN solution
  ELSE [solution EXCEPT !.solution = Completion(outcome, ImprovedText)]

\* solutions_text of _integrate_solutions
RECURSIVE SolutionsText(_)
SolutionsText(sols) ==
  IF sols = << >> THEN << >>
  ELSE <<Head(sols).expert_name>> \o Head(sols).solution \o SolutionsText(Tail(sols))

\* _integrate_solutions: the call's string, or the concatenation on an exception
integrate_solutions(sols, outcome) ==
  IF outcome = "raise" THEN ConcatHeader \o SolutionsText(sols)
  ELSE Completion(outcome, IntegratedText)

\* ---- events of solve_stream
\* ---- aggregate stages
\* the messages of the exceptions a provider call raises with
ErrorMessages == {"timeout", "refused"}

\* how the get_completion_async call of an aggregate stage ends: free text,
\* text holding a JSON object, text holding braces that do not parse, the
\* sentinel for exhausted models, or an exception reaching the stage
AggregateOutcomes ==
  {[kind |-> k, error |-> ""] : k \in {"text", "json", "badjson", "exhausted"}}
    \cup {[kind |-> "raise", error |-> e] : e \in ErrorMessages}

ReflectionText == <<"reflection">>
CritiqueText == <<"critique">>
ParsedValidation == <<"validation">>
ParsedEvaluation == <<"evaluation">>
\* {"solved": "部分", "feasibility": "中", "gaps": "有", "score": 70}
ValidationDefault == <<"solved: partly", "feasibility: medium", "gaps: yes", "score: 70">>
\* {"overall_score": 75, "recommendation": "方案总体可行，..."}
EvaluationDefault == <<"overall_score: 75", "recommendation: feasible">>

\* the text a call that did not raise returned
ReturnedText(o, text) == IF o.kind = "exhausted" THEN AsyncError ELSE text

Returned(value) == [raised |-> FALSE, value |-> value]

\* _reflect_on_solutions, lines 535-542: the text returned, or on an
\* exception f"反思失败: {str(e)}"
reflect_on_solutions(o) ==
  IF o.kind = "raise" THEN Returned(<<"[reflect failed]", o.error>>)
  ELSE Returned(ReturnedText(o, ReflectionText))

\* _validate_solutions with its except clause missing
validate_solutions_propagates(o) ==
  IF o.kind = "json" THEN Returned(ParsedValidation)
  ELSE IF o.kind \in {"raise", "badjson"} THEN [raised |-> TRUE, value |-> << >>]
  ELSE Returned(ValidationDefault)

\* _validate_solutions, lines 611-624: the parsed object when the text holds
\* one; the default dict when no object is found, when json.loads fails and
\* when the call raised
validate_solutions(o) ==
  IF o.kind = "json" THEN Returned(ParsedValidation)
  ELSE Returned(ValidationDefault)

\* _run_critique_round, lines 735-743: the critic's text, or on an exception
\* f"[批评生成失败] {str(e)}"
critique_call(o) ==
  IF o.kind = "raise" THEN Returned(<<"[critique failed]", o.error>>)
  ELSE Returned(ReturnedText(o, CritiqueText))

\* _run_evaluation, lines 857-879: the parsed object; the default dict when
\* nothing parses; on an exception
\* {"overall_score": 70, "recommendation": f"评估失败: {str(e)}"}
run_evaluation(o) ==
  IF o.kind = "json" THEN Returned(ParsedEvaluation)
  ELSE IF o.kind = "raise"
    THEN Returned(<<"overall_score: 70", "recommendation: [evaluate failed]", o.error>>)
  ELSE Returned(EvaluationDefault)

\* the exception of an aggregate stage reaches solve_stream's caller
StageRaises ==
  /\ spc' = "raised"
  /\ UNCHANGED <<improved, slot, solve_round_num, ncalls, solve_events, stage_value>>

StageReturns(stage, o, r) ==
  stage_value' = [stage |-> stage, outcome |-> o, value |-> r.value]

SEv(stage, expert) == [stage |-> stage, expert |-> expert]

\* the improvement events yielded last expert first, the others in list order
PerExpert_order_by_stage(stage, experts) ==
  [i \in 1..Len(experts) |->
     SEv(stage, experts[IF stage = "improvement" THEN Len(experts) + 1 - i ELSE i].name)]

\* the per-expert yields of solve_stream: one event per element of the list
\* the loop runs over, in list order
PerExpert(stage, experts) == [i \in 1..Len(experts) |-> SEv(stage, experts[i].name)]

inputVars == <<problem, selected_expert_indices, max_experts, iteration_rounds>>
gatherVars == <<ready, tasks, results, completed>>

\* the coroutine runs on to its next get_completion_async call, of the given
\* stage, yielding evs on the way when it is solve_stream
Advance(to, stage, evs) ==
  /\ spc' = to
  /\ ncalls' = [ncalls EXCEPT ![stage] = @ + 1]
  /\ solve_events' = IF api = "solve_stream" THEN solve_events \o evs ELSE solve_events

\* ---- requests
Problems == {{}, {"Cooling"}, {"market", "innovation"}, {"IoT"}}

SelectedChoices == {<< >>, <<0>>, <<6, 0>>, <<40>>}

\* no session activity: the state the session part keeps during a solve
SessionIdle ==
  /\ agents = << >>
  /\ session_status = "started"
  /\ history = << >>
  /\ rounds = 0
  /\ current_phase = "opening"
  /\ custom_rounds = << >>
  /\ advance_result = "none"
  /\ is_paused = FALSE
  /\ interrupt_signal = FALSE
  /\ provider_chunks = 0
  /\ model_name = DEFAULT_MODEL
  /\ provider_plan = AllModelsUp
  /\ ConfigIdle
  /\ AppIdle
  /\ pc = "idle"
  /\ caller = "none"
  /\ phase_rounds = 0
  /\ round_num = 0
  /\ agent_idx = 0
  /\ intro = << >>
  /\ full_prompt = NoPrompt
  /\ full_response = << >>
  /\ prompts = << >>
  /\ events = << >>

\* a TechnicalProblemSolver and the arguments of the request about to be made
InitSolve ==
  /\ SessionIdle
  /\ exclude_indices = {}
  /\ problem \in Problems
  /\ selected_expert_indices \in SelectedChoices
  /\ max_experts \in 1..MaxExperts
  /\ iteration_rounds \in 1..MaxIterations
  /\ api = "none"
  /\ spc = "idle"
  /\ intent = NoIntent
  /\ matched_experts = << >>
  /\ ready = << >>
  /\ tasks = << >>
  /\ results = << >>
  /\ completed = << >>
  /\ sub_solutions = << >>
  /\ current_solutions = << >>
  /\ improved = << >>
  /\ slot = 0
  /\ solve_round_num = 0
  /\ ncalls = [s \in Stages |-> 0]
  /\ final_solution = << >>
  /\ stage_value = NoStageValue
  /\ solve_events = << >>

\* ---- the pipeline coroutine, one action from one await to the next
\* solve(): entry, up to the call of IntentAnalyzer.analyze
solve ==
  /\ spc = "idle"
  /\ api = "none"
  /\ api' = "solve"
  /\ spc' = "analyze_wait"
  /\ ncalls' = [ncalls EXCEPT !["analyze"] = @ + 1]
  /\ UNCHANGED <<sessionVars, stage_value, inputVars, intent, matched_experts, gatherVars, sub_solutions,
                 current_solutions, improved, slot, solve_round_num, final_solution,
                 solve_events>>

\* solve_stream(): entry, up to the call of IntentAnalyzer.analyze
solve_stream ==
  /\ spc = "idle"
  /\ api = "none"
  /\ api' = "solve_stream"
  /\ spc' = "analyze_wait"
  /\ ncalls' = [ncalls EXCEPT !["analyze"] = @ + 1]
  /\ solve_events' = <<SEv("analyzing", "")>>
  /\ UNCHANGED <<sessionVars, stage_value, inputVars, intent, matched_experts, gatherVars, sub_solutions,
                 current_solutions, improved, slot, solve_round_num, final_solution>>

\* every coroutine handed to gather becomes a task scheduled on the loop
ScheduleAll(n) == [i \in 1..n |-> i]

\* analyze() returns; experts are matched; _solve_parallel / the task list of
\* solve_stream creates one _solve_single per expert and awaits the gather
AnalyzeReturn ==
  /\ spc = "analyze_wait"
  /\ \E response \in IntentResponses :
       LET it == analyze(problem, response)
           m == IF api = "solve" THEN MatchSolve(selected_expert_indices, max_experts, it)
                ELSE MatchStream(selected_expert_indices, max_experts, it)
       IN /\ intent' = it
          /\ matched_experts' = m
          /\ tasks' = [i \in 1..Len(m) |-> [status |-> "created", outcome |-> "none"]]
          /\ results' = [i \in 1..Len(m) |-> NoSolution]
          /\ ready' = ScheduleAll(Len(m))
  /\ completed' = << >>
  /\ spc' = "gather_wait"
  /\ solve_events' = IF api = "solve_stream"
                     THEN solve_events \o <<SEv("analyzed", ""), SEv("matching", ""),
                                            SEv("matched", ""), SEv("solving", "")>>
                     ELSE solve_events
  /\ UNCHANGED <<sessionVars, stage_value, inputVars, api, sub_solutions, current_solutions, improved,
                 slot, solve_round_num, ncalls, final_solution>>

\* the loop runs the next scheduled task: _solve_single up to its await, the
\* provider call of that expert is now in flight
TaskStart ==
  /\ ready # << >>
  /\ tasks' = [tasks EXCEPT ![Head(ready)].status = "running"]
  /\ ready' = Tail(ready)
  /\ ncalls' = [ncalls EXCEPT !["solve"] = @ + 1]
  /\ UNCHANGED <<sessionVars, stage_value, inputVars, api, spc, intent, matched_experts, results,
                 completed, sub_solutions, current_solutions, improved, slot,
                 solve_round_num, final_solution, solve_events>>

\* the provider call of some running task ends, in any order; the loop gets
\* to I/O completions only after the tasks scheduled before have run
TaskComplete ==
  /\ ready = << >>
  /\ \E i \in 1..Len(tasks), outcome \in ProviderOutcomes :
       /\ tasks[i].status = "running"
       /\ LET r == solve_single(matched_experts[i], outcome) IN
            /\ tasks' = [tasks EXCEPT ![i] = [status |-> IF r.raised THEN "raised"
                                                         ELSE "returned",
                                              outcome |-> outcome]]
            /\ results' = [results EXCEPT ![ResultSlot(i, Len(completed))] = r.value]
       /\ completed' = Append(completed, i)
  /\ UNCHANGED <<sessionVars, stage_value, inputVars, api, spc, intent, matched_experts, ready,
                 sub_solutions, current_solutions, improved, slot, solve_round_num,
                 ncalls, final_solution, solve_events>>

\* the awaited gather is done: solve() goes on to _integrate_solutions,
\* solve_stream yields expert_done per expert and goes on to the first
\* reflection, or to integration when iteration_rounds is 1
GatherDone ==
  /\ spc = "gather_wait"
  /\ gather(tasks) # "pending"
  /\ IF gather(tasks) = "raised"
     THEN /\ spc' = "raised"
          /\ UNCHANGED <<sub_solutions, current_solutions, solve_round_num, ncalls,
                         solve_events>>
     ELSE /\ sub_solutions' = results
          /\ current_solutions' = results
          /\ IF api = "solve_stream" /\ iteration_rounds >= 2
             THEN /\ solve_round_num' = 2
                  /\ Advance("reflect_wait", "reflect",
                             PerExpert("expert_done", matched_experts)
                               \o <<SEv("reflection_start", "")>>)
             ELSE /\ solve_round_num' = solve_round_num
                  /\ Advance("integrate_wait", "integrate",
                             PerExpert("expert_done", matched_experts)
                               \o <<SEv("integrating", "")>>)
  /\ UNCHANGED <<sessionVars, stage_value, inputVars, api, intent, matched_experts, gatherVars,
                 improved, slot, final_solution>>

\* _reflect_on_solutions returns; _improve_solutions issues its first call,
\* or returns at once for an empty expert list and _validate_solutions is called
ReflectReturn ==
  /\ spc = "reflect_wait"
  /\ \E o \in AggregateOutcomes :
       LET r == reflect_on_solutions(o) IN
       IF r.raised THEN StageRaises
       ELSE /\ StageReturns("reflect", o, r)
            /\ improved' = << >>
            /\ IF Len(matched_experts) > 0
               THEN /\ slot' = 1
                    /\ Advance("improve_wait", "improve", <<SEv("reflection", "")>>)
               ELSE /\ slot' = 0
                    /\ Advance("validate_wait", "validate", <<SEv("reflection", "")>>)
  /\ UNCHANGED <<sessionVars, inputVars, api, intent, matched_experts, gatherVars,
                 sub_solutions, current_solutions, solve_round_num, final_solution>>

\* one call of _improve_solutions returns: the next expert's call is issued,
\* or the improved list becomes current_solutions and validation is called
ImproveReturn ==
  /\ spc = "improve_wait"
  /\ \E outcome \in ProviderOutcomes :
       LET done == Append(improved, improve_one(current_solutions[slot], outcome)) IN
       IF slot < Len(matched_experts)
       THEN /\ improved' = done
            /\ slot' = slot + 1
            /\ current_solutions' = current_solutions
            /\ Advance("improve_wait", "improve", << >>)
       ELSE /\ improved' = << >>
            /\ slot' = 0
            /\ current_solutions' = done
            /\ Advance("validate_wait", "validate", PerExpert("improvement", matched_experts))
  /\ stage_value' = NoStageValue
  /\ UNCHANGED <<sessionVars, inputVars, api, intent, matched_experts, gatherVars,
                 sub_solutions, solve_round_num, final_solution>>

\* _validate_solutions returns: the next refinement round starts, or the
\* loop is over and the discussion round begins
ValidateReturn ==
  /\ spc = "validate_wait"
  /\ \E o \in AggregateOutcomes :
       LET r == validate_solutions(o) IN
       IF r.raised THEN StageRaises
       ELSE /\ StageReturns("validate", o, r)
            /\ IF solve_round_num < iteration_rounds
               THEN /\ solve_round_num' = solve_round_num + 1
                    /\ slot' = 0
                    /\ Advance("reflect_wait", "reflect",
                               <<SEv("validation", ""), SEv("reflection_start", "")>>)
               ELSE /\ solve_round_num' = solve_round_num
                    /\ IF Len(matched_experts) > 0
                       THEN /\ slot' = 1
                            /\ Advance("discuss_wait", "discuss",
                                       <<SEv("validation", ""), SEv("discussion_start", "")>>)
                       ELSE /\ slot' = 0
                            /\ Advance("critique_wait", "critique",
                                       <<SEv("validation", ""), SEv("discussion_start", ""),
                                         SEv("critique_start", "")>>)
  /\ UNCHANGED <<sessionVars, inputVars, api, intent, matched_experts, gatherVars,
                 sub_solutions, current_solutions, improved, final_solution>>

\* one call of _run_discussion_round returns: the next expert's call is
\* issued, or the comments are yielded and _run_critique_round calls the critic
DiscussReturn ==
  /\ spc = "discuss_wait"
  /\ IF slot < Len(matched_experts)
     THEN /\ slot' = slot + 1
          /\ Advance("discuss_wait", "discuss", << >>)
     ELSE /\ slot' = 0
          /\ Advance("critique_wait", "critique",
                     PerExpert("discussion", matched_experts)
                       \o <<SEv("critique_start", "")>>)
  /\ stage_value' = NoStageValue
  /\ UNCHANGED <<sessionVars, inputVars, api, intent, matched_experts, gatherVars,
                 sub_solutions, current_solutions, improved, solve_round_num,
                 final_solution>>

\* the critic's call returns: the first expert is asked to respond, or with
\* no expert the critique is yielded and _run_evaluation is called
CritiqueReturn ==
  /\ spc = "critique_wait"
  /\ \E o \in AggregateOutcomes :
       LET r == critique_call(o) IN
       IF r.raised THEN StageRaises
       ELSE /\ StageReturns("critique", o, r)
            /\ IF Len(matched_experts) > 0
               THEN /\ slot' = 1
                    /\ Advance("respond_wait", "respond", << >>)
               ELSE /\ slot' = 0
                    /\ Advance("evaluate_wait", "evaluate",
                               <<SEv("critique", ""), SEv("evaluation_start", "")>>)
  /\ UNCHANGED <<sessionVars, inputVars, api, intent, matched_experts, gatherVars,
                 sub_solutions, current_solutions, improved, solve_round_num,
                 final_solution>>

\* one response call of _run_critique_round returns: the next expert's call
\* is issued, or the round is yielded and _run_evaluation is called
RespondReturn ==
  /\ spc = "respond_wait"
  /\ IF slot < Len(matched_experts)
     THEN /\ slot' = slot + 1
          /\ Advance("respond_wait", "respond", << >>)
     ELSE /\ slot' = 0
          /\ Advance("evaluate_wait", "evaluate",
                     <<SEv("critique", "")>>
                       \o PerExpert("critique_response", matched_experts)
                       \o <<SEv("evaluation_start", "")>>)
  /\ stage_value' = NoStageValue
  /\ UNCHANGED <<sessionVars, inputVars, api, intent, matched_experts, gatherVars,
                 sub_solutions, current_solutions, improved, solve_round_num,
                 final_solution>>

\* _run_evaluation returns: integration is called
EvaluateReturn ==
  /\ spc = "evaluate_wait"
  /\ \E o \in AggregateOutcomes :
       LET r == run_evaluation(o) IN
       IF r.raised THEN StageRaises
       ELSE /\ StageReturns("evaluate", o, r)
            /\ Advance("integrate_wait", "integrate",
                       <<SEv("evaluation", ""), SEv("integrating", "")>>)
  /\ UNCHANGED <<sessionVars, inputVars, api, intent, matched_experts, gatherVars,
                 sub_solutions, current_solutions, improved, slot, solve_round_num,
                 final_solution>>

\* _integrate_solutions returns: solve() returns the ProblemSolution,
\* solve_stream yields complete
IntegrateReturn ==
  /\ spc = "integrate_wait"
  /\ \E outcome \in ProviderOutcomes :
       final_solution' = integrate_solutions(IF api = "solve" THEN sub_solutions
                                             ELSE current_solutions, outcome)
  /\ spc' = "done"
  /\ solve_events' = IF api = "solve_stream" THEN Append(solve_events, SEv("complete", ""))
                     ELSE solve_events
  /\ stage_value' = NoStageValue
  /\ UNCHANGED <<sessionVars, inputVars, api, intent, matched_experts, gatherVars,
                 sub_solutions, current_solutions, improved, slot, solve_round_num, ncalls>>

NextSolve ==
  \/ solve
  \/ solve_stream
  \/ AnalyzeReturn
  \/ TaskStart
  \/ TaskComplete
  \/ GatherDone
  \/ ReflectReturn
  \/ ImproveReturn
  \/ ValidateReturn
  \/ DiscussReturn
  \/ CritiqueReturn
  \/ RespondReturn
  \/ EvaluateReturn
  \/ IntegrateReturn

\* one solve or solve_stream request on a fresh solver
SpecSolve == InitSolve /\ [][NextSolve]_vars

\* a solve_stream request that asks for more than one refinement round
InitRefine ==
  /\ SessionIdle
  /\ exclude_indices = {}
  /\ problem \in Problems
  /\ selected_expert_indices \in SelectedChoices
  /\ max_experts \in 1..MaxExperts
  /\ iteration_rounds = MaxIterations + 1
  /\ api = "none"
  /\ spc = "idle"
  /\ intent = NoIntent
  /\ matched_experts = << >>
  /\ ready = << >>
  /\ tasks = << >>
  /\ results = << >>
  /\ completed = << >>
  /\ sub_solutions = << >>
  /\ current_solutions = << >>
  /\ improved = << >>
  /\ slot = 0
  /\ solve_round_num = 0
  /\ ncalls = [s \in Stages |-> 0]
  /\ final_solution = << >>
  /\ stage_value = NoStageValue
  /\ solve_events = << >>

NextRefine ==
  \/ solve_stream
  \/ AnalyzeReturn
  \/ TaskStart
  \/ TaskComplete
  \/ GatherDone
  \/ ReflectReturn
  \/ ImproveReturn
  \/ ValidateReturn
  \/ DiscussReturn
  \/ CritiqueReturn
  \/ RespondReturn
  \/ EvaluateReturn
  \/ IntegrateReturn

SpecRefine == InitRefine /\ [][NextRefine]_vars

\* ---- calls of the expert matcher on their own
MaxLimit == 3         \* largest limit of a matcher call: -1..MaxLimit
MaxDomains == 2       \* domains of a matcher call: 0..MaxDomains
MaxSubProblems == 4   \* sub-problems of a matcher call: 0..MaxSubProblems

\* domain names a caller passes: rows of the table and a name it does not have
DomainNames == {"product_planning", "iot", "triz", "thermal", "unknown"}

DomainLists == UNION {[1..n -> DomainNames] : n \in 0..MaxDomains}

\* the first n of the sub-problems s1, s2, ...
SubProblemNames == <<"s1", "s2", "s3", "s4", "s5", "s6">>

SubProblemList(n) == SubSeq(SubProblemNames, 1, n)

\* catalog indices a caller excludes: the two generalists and a domain expert
ExcludeChoices == {0, 5, 6}

\* the solver has made no request; the matcher is called with the arguments
\* held in intent, max_experts and exclude_indices
MatcherIdle ==
  /\ SessionIdle
  /\ problem = {}
  /\ selected_expert_indices = << >>
  /\ iteration_rounds = 1
  /\ api = "none"
  /\ spc = "idle"
  /\ matched_experts = << >>
  /\ ready = << >>
  /\ tasks = << >>
  /\ results = << >>
  /\ completed = << >>
  /\ sub_solutions = << >>
  /\ current_solutions = << >>
  /\ improved = << >>
  /\ slot = 0
  /\ solve_round_num = 0
  /\ ncalls = [s \in Stages |-> 0]
  /\ final_solution = << >>
  /\ stage_value = NoStageValue
  /\ solve_events = << >>

\* the arguments of a match_by_domains(domains, limit, exclude_indices) call
InitMatch ==
  /\ MatcherIdle
  /\ \E d \in DomainLists : intent = [NoIntent EXCEPT !.domains = d]
  /\ max_experts \in -1..MaxLimit
  /\ exclude_indices \in SUBSET ExcludeChoices

\* ExpertMatcher.match_by_domains called with those arguments
match_by_domains_call ==
  /\ spc = "idle"
  /\ matched_experts' = match_by_domains(intent.domains, max_experts, exclude_indices)
  /\ spc' = "matched"
  /\ UNCHANGED <<sessionVars, stage_value, inputVars, api, intent, gatherVars, sub_solutions,
                 current_solutions, improved, slot, solve_round_num, ncalls, final_solution,
                 solve_events>>

SpecMatch == InitMatch /\ [][match_by_domains_call]_vars

\* the arguments of a match_with_sub_problems(domains, sub_problems, limit) call
InitAssign ==
  /\ MatcherIdle
  /\ \E d \in DomainLists, n \in 0..MaxSubProblems :
       intent = [NoIntent EXCEPT !.domains = d, !.sub_problems = SubProblemList(n)]
  /\ max_experts \in -1..MaxLimit
  /\ exclude_indices = {}

\* ExpertMatcher.match_with_sub_problems called with those arguments
match_with_sub_problems_call ==
  /\ spc = "idle"
  /\ matched_experts' = match_with_sub_problems(intent.domains, intent.sub_problems, max_experts)
  /\ spc' = "matched"
  /\ UNCHANGED <<sessionVars, stage_value, inputVars, api, intent, gatherVars, sub_solutions,
                 current_solutions, improved, slot, solve_round_num, ncalls, final_solution,
                 solve_events>>

SpecAssign == InitAssign /\ [][match_with_sub_problems_call]_vars

\* ------------------------------------------------- properties of the pipeline
\* positions at which a call of a sequential stage is in flight
SequentialWaits ==
  {"reflect_wait", "improve_wait", "validate_wait", "discuss_wait", "critique_wait",
   "respond_wait", "evaluate_wait", "integrate_wait"}

\* the parallel-solve stage is over for the coroutine
AfterGather == spc \in SequentialWaits \cup {"done"}

\* C7: in solve(), once any parallel-solve call has completed all N have been
\* issued, never more than N are issued, and the returned sub_solutions has
\* length N with the i-th entry named after the i-th matched expert whatever
\* the completion order; with selected_expert_indices = [0] and max_experts = 1
\* the result has one SubProblemSolution and a non-empty final_solution
C7_ParallelSolve ==
  api = "solve" =>
    /\ ncalls["solve"] <= Len(matched_experts)
    /\ completed # << >> =>
         /\ ncalls["solve"] = Len(matched_experts)
         /\ \A j \in 1..Len(tasks) : tasks[j].status # "created"
    /\ AfterGather =>
         /\ ncalls["solve"] = Len(matched_experts)
         /\ Len(sub_solutions) = Len(matched_experts)
         /\ \A i \in 1..Len(matched_experts) :
              sub_solutions[i].expert_name = matched_experts[i].name
    /\ (spc = "done" /\ selected_expert_indices = <<0>> /\ max_experts = 1) =>
         /\ Len(sub_solutions) = 1
         /\ sub_solutions[1].expert_name = EXPERT_CATALOG[1]
         /\ final_solution # << >>

\* solve() has returned for two experts whose calls completed in reverse order
C7_Witness ==
  /\ api = "solve"
  /\ spc = "done"
  /\ Len(matched_experts) = 2
  /\ completed = <<2, 1>>
  /\ sub_solutions[1].expert_name = matched_experts[1].name
  /\ sub_solutions[2].expert_name = matched_experts[2].name
  /\ matched_experts[1].name # matched_experts[2].name

\* C8: while a call of a sequential stage (reflect, improve, validate,
\* discuss, critique, respond, evaluate, integrate) is in flight no
\* parallel-solve call is scheduled or in flight; while the analysis is in
\* flight no other call has been issued; and a step issues a call of a
\* sequential stage only when every parallel-solve call has completed and at
\* most the call that just returned was in flight
C8_StageBarrier ==
  /\ [](/\ spc \in SequentialWaits =>
             /\ ready = << >>
             /\ \A i \in 1..Len(tasks) : tasks[i].status = "returned"
        /\ spc = "analyze_wait" => \A s \in Stages \ {"analyze"} : ncalls[s] = 0
        /\ spc = "gather_wait" => \A s \in Stages \ {"analyze", "solve"} : ncalls[s] = 0)
  /\ [][\A s \in Stages \ {"analyze", "solve"} :
          ncalls'[s] > ncalls[s] =>
            /\ \A i \in 1..Len(tasks) : tasks[i].status = "returned"
            /\ ncalls'[s] = ncalls[s] + 1
            /\ \A t \in Stages \ {s} : ncalls'[t] = ncalls[t]]_vars

\* solve_stream is in its first reflection call after a parallel-solve stage
\* of two calls that completed in reverse order
C8_Witness ==
  /\ api = "solve_stream"
  /\ spc = "reflect_wait"
  /\ Len(tasks) = 2
  /\ completed = <<2, 1>>
  /\ ncalls["solve"] = 2

ErrorStrings == {AsyncError, SolveFailed}

FailedOutcomes == {"exhausted", "raise"}

\* C9: no task ever ends with an exception and the pipeline never aborts; the
\* step in which an expert's call fails writes an error string, under that
\* expert's name, into that expert's slot and changes no other task and no
\* other slot; the gather then hands N results in expert order to the next
\* stage, failed slots holding the error string and the others their answer
C9_FailureIsolated ==
  /\ [](/\ spc # "raised"
        /\ \A i \in 1..Len(tasks) : tasks[i].status # "raised"
        /\ AfterGather =>
             /\ Len(sub_solutions) = Len(matched_experts)
             /\ \A i \in 1..Len(matched_experts) :
                  /\ sub_solutions[i].expert_name = matched_experts[i].name
                  /\ tasks[i].outcome = "raise" => sub_solutions[i].solution = SolveFailed
                  /\ tasks[i].outcome = "exhausted" => sub_solutions[i].solution = AsyncError
                  /\ tasks[i].outcome = "text" => sub_solutions[i].solution = AnswerText)
  /\ [][/\ \A i \in 1..Len(tasks) :
             (tasks[i].status = "running" /\ tasks'[i].status # "running"
                /\ tasks'[i].outcome \in FailedOutcomes) =>
               /\ Len(results') = Len(matched_experts)
               /\ results'[i].solution \in ErrorStrings
               /\ results'[i].expert_name = matched_experts[i].name
               /\ \A j \in (1..Len(tasks)) \ {i} :
                    tasks'[j] = tasks[j] /\ results'[j] = results[j]
        /\ (spc = "gather_wait" /\ spc' # "gather_wait") =>
             spc' \in {"reflect_wait", "integrate_wait"}]_vars

\* solve() has returned after the first of two calls raised and the second
\* answered: one error string, one answer, a final solution
C9_Witness ==
  /\ api = "solve"
  /\ spc = "done"
  /\ Len(matched_experts) = 2
  /\ tasks[1].outcome = "raise"
  /\ tasks[2].outcome = "text"
  /\ sub_solutions[1].solution = SolveFailed
  /\ sub_solutions[2].solution = AnswerText
  /\ final_solution # << >>

\* C10: the ProblemIntent analyze() returns always has a non-empty domains list
C10_DomainsNonEmpty ==
  spc \notin {"idle", "analyze_wait"} => intent.domains # << >>

\* the value an aggregate stage yields for a call that ended as o
StageResult(stage, o) ==
  CASE stage = "reflect"  -> reflect_on_solutions(o)
    [] stage = "validate" -> validate_solutions(o)
    [] stage = "critique" -> critique_call(o)
    [] stage = "evaluate" -> run_evaluation(o)

\* the call raised, or the stage parses its output and the output does not parse
StageFailure(stage, o) ==
  IF o.kind = "raise" THEN TRUE
  ELSE stage \in {"validate", "evaluate"} /\ o.kind \in {"text", "badjson", "exhausted"}

StageCount(evs, stage) == Cardinality({i \in 1..Len(evs) : evs[i].stage = stage})

\* a solve_stream request with refinement has yielded complete
RefinedStreamDone == spc = "done" /\ api = "solve_stream" /\ iteration_rounds >= 2

\* C19 as stated: a failed call of an aggregate stage is not propagated and
\* the stage yields one fixed default, the same whatever the failure was
C19_FixedDefault ==
  /\ spc # "raised"
  /\ (stage_value.stage # "" /\ StageFailure(stage_value.stage, stage_value.outcome)) =>
       \A o \in AggregateOutcomes :
         StageFailure(stage_value.stage, o) =>
           StageResult(stage_value.stage, o).value = stage_value.value

\* C19 amended: a failed call of an aggregate stage is never propagated; the
\* stage yields a stand-in value (validate a fixed default; evaluate a fixed
\* default for unparsable output and a fixed score with the exception's text
\* for a raise; reflect and critique a failure string with the exception's
\* text), its event is emitted, the next stage's call is issued, and the
\* stream ends with complete
C19_FailureAbsorbed ==
  /\ [](spc # "raised")
  /\ [](LET st == stage_value.stage
            o == stage_value.outcome
            v == stage_value.value
        IN (st # "" /\ StageFailure(st, o)) =>
             CASE st = "reflect"  -> v = <<"[reflect failed]", o.error>>
               [] st = "validate" -> v = ValidationDefault
               [] st = "critique" -> v = <<"[critique failed]", o.error>>
               [] st = "evaluate" ->
                    v = IF o.kind = "raise"
                          THEN <<"overall_score: 70", "recommendation: [evaluate failed]", o.error>>
                          ELSE EvaluationDefault)
  /\ [](RefinedStreamDone =>
          /\ StageCount(solve_events, "reflection") = iteration_rounds - 1
          /\ StageCount(solve_events, "validation") = iteration_rounds - 1
          /\ StageCount(solve_events, "critique") = 1
          /\ StageCount(solve_events, "evaluation") = 1
          /\ solve_events[Len(solve_events)].stage = "complete")
  /\ [][ (ReflectReturn \/ ValidateReturn \/ CritiqueReturn \/ EvaluateReturn) =>
            /\ stage_value'.stage \in {"reflect", "validate", "critique", "evaluate"}
            /\ \E stage \in Stages : ncalls'[stage] = ncalls[stage] + 1
            /\ api = "solve_stream"
            /\ stage_value'.stage = "reflect" =>
                 StageCount(solve_events', "reflection") = StageCount(solve_events, "reflection") + 1
            /\ stage_value'.stage = "validate" =>
                 StageCount(solve_events', "validation") = StageCount(solve_events, "validation") + 1
            /\ stage_value'.stage = "evaluate" =>
                 StageCount(solve_events', "evaluation") = StageCount(solve_events, "evaluation") + 1 ]_vars

\* the call of the evaluation stage raised; the stage handed on its stand-in
\* value, its event was emitted and the integration call is in flight
C19_Witness ==
  /\ spc = "integrate_wait"
  /\ api = "solve_stream"
  /\ stage_value.stage = "evaluate"
  /\ stage_value.outcome.kind = "raise"
  /\ Len(matched_experts) = 2
  /\ StageCount(solve_events, "evaluation") = 1
  /\ solve_events[Len(solve_events)].stage = "integrating"

\* one event of the stage per matched expert, in matched_experts order
ExpertEvents(stage) ==
  [i \in 1..Len(matched_experts) |-> [stage |-> stage, expert |-> matched_experts[i].name]]

StageEvent(stage) == [stage |-> stage, expert |-> ""]

RECURSIVE RefinementRounds(_)
\* the events of the refinement rounds from round r on
RefinementRounds(r) ==
  IF r > iteration_rounds THEN << >>
  ELSE <<StageEvent("reflection_start"), StageEvent("reflection")>>
         \o ExpertEvents("improvement")
         \o <<StageEvent("validation")>>
         \o RefinementRounds(r + 1)

\* the events between the last expert_done and integrating
RefinementEvents ==
  IF iteration_rounds <= 1 THEN << >>
  ELSE RefinementRounds(2)
         \o <<StageEvent("discussion_start")>> \o ExpertEvents("discussion")
         \o <<StageEvent("critique_start"), StageEvent("critique")>>
         \o ExpertEvents("critique_response")
         \o <<StageEvent("evaluation_start"), StageEvent("evaluation")>>

\* the whole stream of a request
StreamOrder ==
  <<StageEvent("analyzing"), StageEvent("analyzed"), StageEvent("matching"),
    StageEvent("matched"), StageEvent("solving")>>
    \o ExpertEvents("expert_done")
    \o RefinementEvents
    \o <<StageEvent("integrating"), StageEvent("complete")>>

RefinementStages ==
  {"reflection_start", "reflection", "improvement", "validation", "discussion_start",
   "discussion", "critique_start", "critique", "critique_response", "evaluation_start",
   "evaluation"}

\* C20: the events of solve_stream come in one fixed stage order: analyzing,
\* analyzed, matching, matched, solving, one expert_done per expert, the
\* refinement events only when iteration_rounds > 1, integrating, and
\* complete last; the per-expert events of every stage are in
\* matched_experts order, whatever order the calls completed in
C20_StageOrder ==
  /\ Len(solve_events) <= Len(StreamOrder) =>
       solve_events = SubSeq(StreamOrder, 1, Len(solve_events))
  /\ Len(solve_events) > 5 => Len(solve_events) <= Len(StreamOrder)
  /\ (spc = "done" /\ api = "solve_stream") => solve_events = StreamOrder
  /\ iteration_rounds = 1 =>
       \A i \in 1..Len(solve_events) : solve_events[i].stage \notin RefinementStages

\* a refined stream over two experts ended, the second expert's
\* parallel-solve call having completed before the first's
C20_Witness ==
  /\ spc = "done"
  /\ api = "solve_stream"
  /\ iteration_rounds = 2
  /\ Len(matched_experts) = 2
  /\ matched_experts[1].name # matched_experts[2].name
  /\ completed = <<2, 1>>
  /\ solve_events = StreamOrder

\* C27: with iteration_rounds = R > 1 every one of the R - 1 refinement rounds
\* runs reflect, improve, validate, discuss, critique and evaluate: each of
\* these sub-steps is run R - 1 times, and a round's evaluation is yielded
\* before the next round's reflection_start
C27_AllSubStepsPerRound ==
  (spc = "done" /\ api = "solve_stream" /\ iteration_rounds > 1) =>
    /\ \A s \in {"reflection_start", "reflection", "validation", "discussion_start",
                 "critique", "evaluation"} :
         StageCount(solve_events, s) = iteration_rounds - 1
    /\ \A s \in {"reflect", "validate", "critique", "evaluate"} :
         ncalls[s] = iteration_rounds - 1
    /\ \A i, j \in 1..Len(solve_events) :
         (/\ i < j
          /\ solve_events[i].stage = "reflection_start"
          /\ solve_events[j].stage = "reflection_start") =>
           \E k \in (i + 1)..(j - 1) : solve_events[k].stage = "evaluation"

\* C28: the improve step issues its N calls in parallel: when a call of it
\* returns, all N calls of that round have been issued; the result list keeps
\* the length N and, position by position, the expert names
C28_ImproveParallel ==
  [][ ImproveReturn =>
        /\ ncalls["improve"] - Len(matched_experts) * ncalls["validate"] = Len(matched_experts)
        /\ Len(current_solutions') = Len(current_solutions)
        /\ \A i \in 1..Len(current_solutions) :
             current_solutions'[i].expert_name = current_solutions[i].expert_name ]_vars

\* ---- the expert matcher
\* catalog indices the requested domains map to and the caller does not exclude
DomainIndices(domains, exclude) ==
  {idx \in 0..(Len(EXPERT_CATALOG) - 1) \ exclude :
     \E k \in 1..Len(domains) :
       /\ domains[k] \in DOMAIN DOMAIN_TO_EXPERT_INDEX
       /\ \E j \in 1..Len(DOMAIN_TO_EXPERT_INDEX[domains[k]]) :
            DOMAIN_TO_EXPERT_INDEX[domains[k]][j] = idx}

\* position of the first requested domain that maps to idx
FirstDomain(domains, idx) ==
  CHOOSE k \in 1..Len(domains) :
    /\ idx \in DomainIndices(<<domains[k]>>, {})
    /\ \A h \in 1..(k - 1) : idx \notin DomainIndices(<<domains[h]>>, {})

IsGeneralist(m) == m.relevance_score = 1

MatchReturned == spc = "matched"

Deduplicated(r) == \A i, j \in 1..Len(r) : i # j => r[i].index # r[j].index

PaddedOnlyWhenShort(r, domains, limit, exclude) ==
  (\E i \in 1..Len(r) : IsGeneralist(r[i])) =>
     Cardinality(DomainIndices(domains, exclude)) < limit

DomainOrderKept(r, domains) ==
  \A i, j \in 1..Len(r) :
    i < j =>
      /\ IsGeneralist(r[i]) => IsGeneralist(r[j])
      /\ ~IsGeneralist(r[j]) =>
           /\ r[i].index \in DomainIndices(domains, {})
           /\ r[j].index \in DomainIndices(domains, {})
           /\ FirstDomain(domains, r[i].index) <= FirstDomain(domains, r[j].index)

\* C32 as stated: match_by_domains returns a deduplicated list of at most
\* limit experts, generalists are added only when fewer than limit experts
\* were matched through the domain table, domain-matched experts precede the
\* generalists and keep the order of the requested domains, and for
\* limit >= 1 the result is never empty.
C32_AsStated ==
  MatchReturned =>
    /\ Deduplicated(matched_experts)
    /\ Len(matched_experts) <= max_experts
    /\ PaddedOnlyWhenShort(matched_experts, intent.domains, max_experts, exclude_indices)
    /\ DomainOrderKept(matched_experts, intent.domains)
    /\ max_experts >= 1 => matched_experts # << >>

\* C32: match_by_domains returns a deduplicated list, of at most limit
\* experts when limit >= 0; generalists are added only when fewer than limit
\* experts were matched through the domain table; domain-matched experts
\* precede the generalists and keep the order of the requested domains; for
\* limit >= 1 the result is non-empty unless exclude_indices holds both
\* generalists and every expert the requested domains map to.
C32_MatchByDomains ==
  MatchReturned =>
    /\ Deduplicated(matched_experts)
    /\ max_experts >= 0 => Len(matched_experts) <= max_experts
    /\ PaddedOnlyWhenShort(matched_experts, intent.domains, max_experts, exclude_indices)
    /\ DomainOrderKept(matched_experts, intent.domains)
    /\ (/\ max_experts >= 1
        /\ (DomainIndices(intent.domains, exclude_indices) # {}
              \/ {0, 5} \ exclude_indices # {}))
         => matched_experts # << >>

\* one domain expert matched, a generalist excluded, the other one padded,
\* the result cut to limit
C32_Witness ==
  /\ MatchReturned
  /\ max_experts = 2
  /\ Len(intent.domains) = 2
  /\ intent.domains[1] = intent.domains[2]
  /\ exclude_indices = {0}
  /\ Len(matched_experts) = 2
  /\ matched_experts[1].index = 6
  /\ matched_experts[2].index = 5
  /\ IsGeneralist(matched_experts[2])

\* the experts whose assigned sub-problems include sub
AssignedTo(r, sub) ==
  {e \in 1..Len(r) :
     \E k \in 1..Len(r[e].assigned_sub_problem) : r[e].assigned_sub_problem[k] = sub}

EveryOneAssignedOnce(r, subs) ==
  \A i \in 1..Len(subs) : Cardinality(AssignedTo(r, subs[i])) = 1

\* sub-problem i, counted from 0, is with expert i mod E
RoundRobinOverExperts(r, subs) ==
  \A i \in 0..(Len(subs) - 1) : AssignedTo(r, subs[i + 1]) = {(i % Len(r)) + 1}

EveryExpertAssigned(r) ==
  \A e \in 1..Len(r) : r[e].assigned_sub_problem # << >>

\* C33: match_with_sub_problems assigns round-robin in both directions: every
\* sub-problem goes to exactly one expert, sub-problem i to expert i mod E
\* when sub-problems outnumber experts, and when experts outnumber
\* sub-problems every expert still receives a sub-problem.
C33_RoundRobinBothWays ==
  (MatchReturned /\ matched_experts # << >> /\ intent.sub_problems # << >>) =>
    /\ EveryOneAssignedOnce(matched_experts, intent.sub_problems)
    /\ Len(intent.sub_problems) >= Len(matched_experts) =>
         RoundRobinOverExperts(matched_experts, intent.sub_problems)
    /\ Len(matched_experts) > Len(intent.sub_problems) =>
         EveryExpertAssigned(matched_experts)

\* the step in which the pipeline has the intent and matches the experts
MatchesExperts == spc = "analyze_wait" /\ spc' = "gather_wait"

\* C37: for the same problem, selected_expert_indices and max_experts,
\* solve() and solve_stream() work on the same list of matched experts, and
\* neither of them goes on with no expert, also when every selected index is
\* invalid.
C37_SameExpertsBothEntryPoints ==
  [][MatchesExperts =>
       /\ matched_experts' = MatchSolve(selected_expert_indices, max_experts, intent')
       /\ matched_experts' = MatchStream(selected_expert_indices, max_experts, intent')
       /\ matched_experts' # << >>]_vars


\* the entry the improve step stores for the expert whose call just returned
ImprovedEntry ==
  IF slot < Len(matched_experts) THEN improved'[slot] ELSE current_solutions'[slot]

\* C39: when an expert's improve call fails, also because the provider
\* exhausted every model, the improved list keeps that expert's previous
\* solution at the same index: an entry that does not hold the improved text
\* is the previous entry, never an error string.
C39_ExhaustedKeepsSolution ==
  [][ImproveReturn =>
       /\ ImprovedEntry.expert_name = current_solutions[slot].expert_name
       /\ ImprovedEntry.solution # ImprovedText =>
            /\ ImprovedEntry = current_solutions[slot]
            /\ ImprovedEntry.solution # AsyncError]_vars
====
